---- MODULE Spec2Model ----
(***************************************************************************)
(* Tenant-scoped authorization core of the project manager backend:       *)
(* authentication, tenant guard, project access resolution, invitations,  *)
(* join requests and the CRUD routes that sit behind them.                 *)
(*                                                                         *)
(* The persistent store is modelled table by table.  A handler whose      *)
(* awaits matter for a race is split at its database calls and lives in   *)
(* `inflight` between them; the other handlers run as one action.          *)
(***************************************************************************)
EXTENDS Integers, FiniteSets, Sequences, Bags, TLC

\* ------------------------------------------------------------------ bounds
MaxTime == 2
MaxProjects == 1
MaxInvitations == 1
MaxJoinRequests == 1
MaxTasks == 1
MaxComments == 1
MaxAttachments == 1
MaxInflight == 2

\* expiresAt.setDate(expiresAt.getDate() + 7): the clock counts weeks
ExpiryWeeks == 1

\* ------------------------------------------------------------ fixed tables
Tenants == {"t1", "t2"}
Users == {"u1", "u2", "u3"}

\* users.tenant_id: a user belongs to exactly one tenant
UserTenant == [u \in Users |-> IF u = "u3" THEN "t2" ELSE "t1"]

\* users.email
UserEmail == [u \in Users |-> CASE u = "u1" -> "a@x.com"
                                [] u = "u2" -> "b@x.com"
                                [] OTHER -> "c@x.com"]
Emails == {UserEmail[u] : u \in Users}

\* an address as an inviter may type it: that of u2 in another letter case
MixedCaseEmails == {"B@x.com"}

\* LOWER(email) on the addresses above
toLowerCase(e) == IF e = "B@x.com" THEN "b@x.com" ELSE e

ProjectRole == {"OWNER", "ADMIN", "MEMBER", "VIEWER"}
InvitableRoles == {"ADMIN", "MEMBER", "VIEWER"}
Undefined == "UNDEFINED"

VARIABLES
  now,            \* new Date(), in weeks
  tenantStatus,   \* tenants.status
  projects,       \* projects rows
  members,        \* project_members rows (a bag: the table itself allows equal rows)
  invitations,    \* invitations rows
  joinRequests,   \* join_requests rows
  tasks,          \* tasks rows
  comments,       \* task_comments rows
  attachments,    \* task_attachments rows
  notifications,  \* notifications rows
  activityLog,    \* activity_log rows
  nextId,         \* per-table id generators
  inflight,       \* handlers suspended at an await
  last            \* the response most recently sent

vars == <<now, tenantStatus, projects, members, invitations, joinRequests,
          tasks, comments, attachments, notifications, activityLog, nextId,
          inflight, last>>

db == <<projects, members, invitations, joinRequests, tasks, comments,
        attachments, notifications, activityLog, nextId>>

\* ------------------------------------------------------------- middleware

\* authenticate without its tenant status test
authenticate_userOnly(u) ==
  IF u \notin Users THEN "Unauthenticated" ELSE "ok"

\* authenticate: the user must exist and its tenant must be ACTIVE;
\* the outcome is "ok" or the response kind sent instead of calling next()
authenticate(u) ==
  IF u \notin Users THEN "Unauthenticated"
  ELSE IF tenantStatus[UserTenant[u]] # "ACTIVE" THEN "TenantInactive"
  ELSE "ok"

\* ensureTenantAccess that never throws
ensureTenantAccess_never(userTenantId, resourceTenantId) == TRUE

\* ensureTenantAccess: TRUE when it returns, FALSE when it throws
ensureTenantAccess(userTenantId, resourceTenantId) ==
  userTenantId = resourceTenantId

\* errorHandler: error reaching next(error) -> kind of the response
errorHandler(err) ==
  CASE err = "P2002" -> "Conflict"
    [] err = "P2025" -> "NotFound"
    [] err = "TenantMismatch" -> "TenantMismatch"
    [] OTHER -> "InternalError"

\* ------------------------------------------------------------ permissions

MemberRows(ms, p, u) == {m \in BagToSet(ms) : m.projectId = p /\ m.userId = u}

ProjectById(p) == {x \in projects : x.id = p}

\* checkProjectAccess deciding on the membership row alone, the creator forgotten
checkProjectAccess_rowOnly(userId, projectId, tenantId) ==
  LET membership == {m \in MemberRows(members, projectId, userId) :
                       m.tenantId = tenantId}
  IN IF membership = {}
     THEN [hasAccess |-> FALSE, role |-> Undefined, threw |-> FALSE]
     ELSE [hasAccess |-> TRUE,
           role |-> (CHOOSE m \in membership : TRUE).role,
           threw |-> FALSE]

\* checkProjectAccess answering a project of another tenant with a plain
\* denial in place of the guard's throw
checkProjectAccess_softMismatch(userId, projectId, tenantId) ==
  LET membership == {m \in MemberRows(members, projectId, userId) :
                       m.tenantId = tenantId}
      owned == {x \in ProjectById(projectId) :
                  x.tenantId = tenantId /\ x.createdBy = userId}
  IN IF membership # {}
     THEN [hasAccess |-> TRUE,
           role |-> (CHOOSE m \in membership : TRUE).role,
           threw |-> FALSE]
     ELSE IF owned # {}
     THEN [hasAccess |-> TRUE, role |-> "OWNER", threw |-> FALSE]
     ELSE [hasAccess |-> FALSE, role |-> Undefined, threw |-> FALSE]

\* checkProjectAccess: hasAccess/role as returned; threw = the tenant guard
\* inside it raised "Unauthorized: Tenant mismatch"
checkProjectAccess(userId, projectId, tenantId) ==
  LET membership == {m \in MemberRows(members, projectId, userId) :
                       m.tenantId = tenantId}
  IN IF membership = {}
     THEN IF ProjectById(projectId) = {}
          THEN [hasAccess |-> FALSE, role |-> Undefined, threw |-> FALSE]
          ELSE LET project == CHOOSE x \in ProjectById(projectId) : TRUE
               IN IF ~ensureTenantAccess(tenantId, project.tenantId)
                  THEN [hasAccess |-> FALSE, role |-> Undefined, threw |-> TRUE]
                  ELSE IF project.createdBy = userId
                  THEN [hasAccess |-> TRUE, role |-> "OWNER", threw |-> FALSE]
                  ELSE [hasAccess |-> FALSE, role |-> Undefined, threw |-> FALSE]
     ELSE [hasAccess |-> TRUE,
           role |-> (CHOOSE m \in membership : TRUE).role,
           threw |-> FALSE]

\* canWrite granting the capability to every role of the enum
canWrite_everyRole(role) == role \in ProjectRole

canWrite(role) == role = "OWNER" \/ role = "ADMIN" \/ role = "MEMBER"

canAdmin(role) == role = "OWNER" \/ role = "ADMIN"

\* -------------------------------------------------------- rows and lookups

NoRow == [id |-> 0]

TaskById(t) == {x \in tasks : x.id = t}
InvitationById(i) == {x \in invitations : x.id = i}
JoinRequestById(j) == {x \in joinRequests : x.id = j}

\* findFirst({ token, status: 'PENDING' }); the token is generated with the row
PendingByToken(tok) == {x \in invitations : x.token = tok /\ x.status = "PENDING"}

\* project_members without its unique key: every insert is accepted
unique_project_user_dropped(ms, p, u) == TRUE

\* UNIQUE KEY unique_project_user (project_id, user_id): TRUE when the insert is accepted
unique_project_user(ms, p, u) == MemberRows(ms, p, u) = {}

\* invitations without its unique key: every insert is accepted
unique_project_email_dropped(is, p, e) == TRUE

\* UNIQUE KEY unique_project_email (project_id, email): TRUE when the insert is accepted
unique_project_email(is, p, e) == {x \in is : x.projectId = p /\ x.email = e} = {}

\* projectMember.create: the error raised, or "ok"
MemberCreateError(p, u) ==
  IF ProjectById(p) = {} THEN "P2003"
  ELSE IF ~unique_project_user(members, p, u) THEN "P2002"
  ELSE "ok"

MemberRow(t, p, u, r) == [tenantId |-> t, projectId |-> p, userId |-> u, role |-> r]

ActivityRow(t, p, u, action, entityType) ==
  [tenantId |-> t, projectId |-> p, userId |-> u, action |-> action,
   entityType |-> entityType]

NotificationRow(t, u, title, p, j) ==
  [tenantId |-> t, userId |-> u, title |-> title, projectId |-> p,
   joinRequestId |-> j, read |-> FALSE]

\* invitation.update({ where: { id } }): every row with that id gets the status
SetInvitationStatus(i, st) ==
  {IF x.id = i THEN [x EXCEPT !.status = st] ELSE x : x \in invitations}

SetJoinRequestStatus(j, st) ==
  {IF x.id = j THEN [x EXCEPT !.status = st] ELSE x : x \in joinRequests}

\* ---------------------------------------------------- requests, responses

Checks == {"auth", "guard", "access", "perm"}

NoResponse ==
  [op |-> "none", user |-> "none", id |-> 0, kind |-> "none", pre |-> "NONE",
   overlap |-> FALSE, at |-> 0, resTenant |-> "none", checks |-> {},
   access |-> FALSE, rows |-> 0, wrote |-> FALSE]

\* a response of an atomic handler
Reply(op, u, id, kind, rt, checks, wrote) ==
  [NoResponse EXCEPT !.op = op, !.user = u, !.id = id, !.kind = kind,
                     !.resTenant = rt, !.checks = checks, !.wrote = wrote]

\* a handler suspended at an await
Request(op, pc, u, id, row, rt) ==
  [op |-> op, pc |-> pc, user |-> u, id |-> id, row |-> row, snap |-> FALSE,
   pre |-> "NONE", overlap |-> FALSE, resTenant |-> rt, checks |-> {"auth"},
   wrote |-> FALSE]

\* the response of a suspended handler
Finish(r, kind) ==
  [NoResponse EXCEPT !.op = r.op, !.user = r.user, !.id = r.id, !.kind = kind,
                     !.pre = r.pre, !.overlap = r.overlap,
                     !.resTenant = r.resTenant, !.checks = r.checks,
                     !.wrote = r.wrote]

Requests == BagToSet(inflight)
Suspend(r) == inflight (+) SetToBag({r})
Resume(r, r2) == (inflight (-) SetToBag({r})) (+) SetToBag({r2})
Done(r) == inflight (-) SetToBag({r})
CanStart == BagCardinality(inflight) < MaxInflight

\* the pipeline without the resolver and the predicate: the guard alone
Gate_guardOnly(u, rt, p, allowed) ==
  IF ~ensureTenantAccess(UserTenant[u], rt)
  THEN [kind |-> errorHandler("TenantMismatch"), checks |-> {"auth"}]
  ELSE [kind |-> "pass", checks |-> Checks]

\* the guard / access / predicate pipeline shared by the mutating routes;
\* allowed = the roles the route's permission predicate accepts
Gate(u, rt, p, allowed) ==
  IF ~ensureTenantAccess(UserTenant[u], rt)
  THEN [kind |-> errorHandler("TenantMismatch"), checks |-> {"auth"}]
  ELSE LET a == checkProjectAccess(u, p, UserTenant[u])
       IN IF a.threw
          THEN [kind |-> errorHandler("TenantMismatch"),
                checks |-> {"auth", "guard", "access"}]
          ELSE IF ~a.hasAccess \/ a.role \notin allowed
          THEN [kind |-> "Forbidden", checks |-> {"auth", "guard", "access"}]
          ELSE [kind |-> "pass", checks |-> Checks]

\* ------------------------------------------------------------------- Init

Init ==
  /\ now = 0
  /\ tenantStatus = [t \in Tenants |-> "ACTIVE"]
  /\ projects = {}
  /\ members = EmptyBag
  /\ invitations = {}
  /\ joinRequests = {}
  /\ tasks = {}
  /\ comments = {}
  /\ attachments = {}
  /\ notifications = {}
  /\ activityLog = {}
  /\ nextId = [project |-> 1, invitation |-> 1, joinRequest |-> 1, task |-> 1,
               comment |-> 1, attachment |-> 1]
  /\ inflight = EmptyBag
  /\ last = NoResponse

\* the clock advances
Tick ==
  /\ now < MaxTime
  /\ now' = now + 1
  /\ UNCHANGED <<tenantStatus, db, inflight, last>>

\* tenants.status ENUM: no route writes it, the operator of the service does
TenantStatuses == {"ACTIVE", "SUSPENDED", "CANCELLED"}

SetTenantStatus(t, st) ==
  /\ tenantStatus[t] # st
  /\ tenantStatus' = [tenantStatus EXCEPT ![t] = st]
  /\ UNCHANGED <<now, db, inflight, last>>

\* authenticate answering instead of calling next(): the route is not run
RejectRequest(u, op) ==
  /\ authenticate(u) # "ok"
  /\ last' = Reply(op, u, 0, authenticate(u), "none", {}, FALSE)
  /\ UNCHANGED <<now, tenantStatus, db, inflight>>

\* the server process stops: every suspended handler is lost with no response,
\* what it wrote so far stays in the database
Crash ==
  /\ inflight # EmptyBag
  /\ inflight' = EmptyBag
  /\ UNCHANGED <<now, tenantStatus, db, last>>

\* --------------------------------------------------------------- projects

TasksOf(p) == {t.id : t \in {x \in tasks : x.projectId = p}}

\* the access the resolver gives u on project p, a denial when it throws
HasAccess(u, p) ==
  LET a == checkProjectAccess(u, p, UserTenant[u]) IN a.hasAccess /\ ~a.threw

\* POST /api/projects, up to project.create
CreateProject(u) ==
  /\ authenticate(u) = "ok"
  /\ CanStart
  /\ nextId.project <= MaxProjects
  /\ projects' = projects \cup
       {[id |-> nextId.project, code |-> nextId.project,
         tenantId |-> UserTenant[u], createdBy |-> u, status |-> "ACTIVE"]}
  /\ nextId' = [nextId EXCEPT !.project = @ + 1]
  /\ inflight' = Suspend([Request("createProject", "member", u, nextId.project,
                                  NoRow, UserTenant[u]) EXCEPT !.wrote = TRUE])
  /\ UNCHANGED <<now, tenantStatus, members, invitations, joinRequests, tasks,
                 comments, attachments, notifications, activityLog, last>>

\* POST /api/projects: projectMember.create for the creator
CreateProjectOwner(r) ==
  /\ r.op = "createProject" /\ r.pc = "member"
  /\ LET err == MemberCreateError(r.id, r.user)
     IN IF err = "ok"
        THEN /\ members' = members (+)
                  SetToBag({MemberRow(UserTenant[r.user], r.id, r.user, "OWNER")})
             /\ inflight' = Resume(r, [r EXCEPT !.pc = "log"])
             /\ UNCHANGED last
        ELSE /\ last' = Finish(r, errorHandler(err))
             /\ inflight' = Done(r)
             /\ UNCHANGED members
  /\ UNCHANGED <<now, tenantStatus, projects, invitations, joinRequests, tasks,
                 comments, attachments, notifications, activityLog, nextId>>

\* POST /api/projects: activityLog.create and the 201 response
CreateProjectLog(r) ==
  /\ r.op = "createProject" /\ r.pc = "log"
  /\ IF ProjectById(r.id) # {}
     THEN /\ activityLog' = activityLog \cup
               {ActivityRow(UserTenant[r.user], r.id, r.user, "created", "project")}
          /\ last' = Finish(r, "OK")
     ELSE /\ last' = Finish(r, errorHandler("P2003"))
          /\ UNCHANGED activityLog
  /\ inflight' = Done(r)
  /\ UNCHANGED <<now, tenantStatus, projects, members, invitations, joinRequests,
                 tasks, comments, attachments, notifications, nextId>>

\* GET /api/projects/:id
GetProject(u, p) ==
  /\ authenticate(u) = "ok"
  /\ IF ProjectById(p) = {}
     THEN last' = Reply("getProject", u, p, "NotFound", "none", {"auth"}, FALSE)
     ELSE LET project == CHOOSE x \in ProjectById(p) : TRUE
              isCreator == project.createdBy = u
              isMember == MemberRows(members, p, u) # {}
          IN last' = [Reply("getProject", u, p,
                            IF isCreator \/ isMember THEN "OK" ELSE "Forbidden",
                            project.tenantId, {"auth"}, FALSE)
                        EXCEPT !.access = HasAccess(u, p)]
  /\ UNCHANGED <<now, tenantStatus, db, inflight>>

\* PUT /api/projects/:id
UpdateProject(u, p, st) ==
  /\ authenticate(u) = "ok"
  /\ IF ProjectById(p) = {}
     THEN /\ last' = Reply("updateProject", u, p, "NotFound", "none", {"auth"}, FALSE)
          /\ UNCHANGED <<projects, activityLog>>
     ELSE LET project == CHOOSE x \in ProjectById(p) : TRUE
              g == Gate(u, project.tenantId, p, {x \in ProjectRole : canWrite(x)})
          IN IF g.kind = "pass"
             THEN /\ projects' = (projects \ {project}) \cup
                                   {[project EXCEPT !.status = st]}
                  /\ activityLog' = activityLog \cup
                       {ActivityRow(UserTenant[u], p, u, "updated", "project")}
                  /\ last' = Reply("updateProject", u, p, "OK", project.tenantId,
                                   g.checks, TRUE)
             ELSE /\ last' = Reply("updateProject", u, p, g.kind, project.tenantId,
                                   g.checks, FALSE)
                  /\ UNCHANGED <<projects, activityLog>>
  /\ UNCHANGED <<now, tenantStatus, members, invitations, joinRequests, tasks,
                 comments, attachments, notifications, nextId, inflight>>

\* DELETE /api/projects/:id, with the cascade of the foreign keys
DeleteProject(u, p) ==
  /\ authenticate(u) = "ok"
  /\ IF ProjectById(p) = {}
     THEN /\ last' = Reply("deleteProject", u, p, "NotFound", "none", {"auth"}, FALSE)
          /\ UNCHANGED <<projects, members, invitations, joinRequests, tasks,
                         comments, attachments, activityLog>>
     ELSE LET project == CHOOSE x \in ProjectById(p) : TRUE
              g == Gate(u, project.tenantId, p, {x \in ProjectRole : canAdmin(x)})
              Keep(m) == m.projectId # p
          IN IF g.kind = "pass"
             THEN /\ projects' = projects \ {project}
                  /\ members' = [x \in {y \in DOMAIN members : Keep(y)} |-> members[x]]
                  /\ invitations' = {x \in invitations : x.projectId # p}
                  /\ joinRequests' = {x \in joinRequests : x.projectId # p}
                  /\ tasks' = {x \in tasks : x.projectId # p}
                  /\ comments' = {x \in comments : x.taskId \notin TasksOf(p)}
                  /\ attachments' = {x \in attachments : x.taskId \notin TasksOf(p)}
                  /\ activityLog' = {x \in activityLog : x.projectId # p}
                  /\ last' = Reply("deleteProject", u, p, "OK", project.tenantId,
                                   g.checks, TRUE)
             ELSE /\ last' = Reply("deleteProject", u, p, g.kind, project.tenantId,
                                   g.checks, FALSE)
                  /\ UNCHANGED <<projects, members, invitations, joinRequests,
                                 tasks, comments, attachments, activityLog>>
  /\ UNCHANGED <<now, tenantStatus, notifications, nextId, inflight>>

\* GET /api/projects/:id/tasks
GetProjectTasks(u, p) ==
  /\ authenticate(u) = "ok"
  /\ IF ProjectById(p) = {}
     THEN last' = Reply("getProjectTasks", u, p, "NotFound", "none", {"auth"}, FALSE)
     ELSE LET project == CHOOSE x \in ProjectById(p) : TRUE
              found == {x \in tasks : x.projectId = p /\ x.tenantId = UserTenant[u]}
          IN IF ~ensureTenantAccess(UserTenant[u], project.tenantId)
             THEN last' = Reply("getProjectTasks", u, p, errorHandler("TenantMismatch"),
                                project.tenantId, {"auth"}, FALSE)
             ELSE last' = [Reply("getProjectTasks", u, p, "OK", project.tenantId,
                                 {"auth", "guard"}, FALSE)
                             EXCEPT !.access = HasAccess(u, p),
                                    !.rows = Cardinality(found)]
  /\ UNCHANGED <<now, tenantStatus, db, inflight>>

\* ------------------------------------------------------------ invitations

InvitationByToken(tok) == {x \in invitations : x.token = tok}

\* the tenant of the invitation carrying the token, whatever its status
TokenTenant(tok) ==
  IF InvitationByToken(tok) = {} THEN "none"
  ELSE (CHOOSE x \in InvitationByToken(tok) : TRUE).tenantId

TokenStatus(tok) ==
  IF InvitationByToken(tok) = {} THEN "NONE"
  ELSE (CHOOSE x \in InvitationByToken(tok) : TRUE).status

\* POST /api/invitations; once MaxInvitations rows were created only a
\* repeated invitation of an already invited (project, email) is still sent
CreateInvitation(u, p, e, role) ==
  /\ authenticate(u) = "ok"
  /\ IF ProjectById(p) = {}
     THEN /\ nextId.invitation <= MaxInvitations
          /\ last' = Reply("createInvitation", u, p, "NotFound", "none", {"auth"}, FALSE)
          /\ UNCHANGED <<invitations, nextId>>
     ELSE LET project == CHOOSE x \in ProjectById(p) : TRUE
              g == Gate(u, project.tenantId, p, {x \in ProjectRole : canAdmin(x)})
              existingUser == {x \in Users : UserEmail[x] = e /\
                                             UserTenant[x] = UserTenant[u]}
              existingMember == \E x \in existingUser : MemberRows(members, p, x) # {}
              existingInvitation ==
                {x \in invitations : x.projectId = p /\ x.email = e /\
                                     x.status = "PENDING"}
              kind == IF g.kind # "pass" THEN g.kind
                      ELSE IF existingMember THEN "Conflict"
                      ELSE IF existingInvitation # {} THEN "Conflict"
                      ELSE IF ~unique_project_email(invitations, p, e)
                      THEN errorHandler("P2002")
                      ELSE "OK"
              sent == {x \in invitations : x.projectId = p /\ x.email = e}
          IN /\ nextId.invitation <= MaxInvitations \/ (sent # {} /\ kind # "OK")
             /\ last' = [Reply("createInvitation", u, p, kind, project.tenantId,
                               g.checks, kind = "OK")
                           EXCEPT !.pre = IF sent = {} THEN "NONE"
                                          ELSE (CHOOSE x \in sent : TRUE).status]
             /\ IF kind = "OK"
                THEN /\ invitations' = invitations \cup
                          {[id |-> nextId.invitation, token |-> nextId.invitation,
                            tenantId |-> UserTenant[u], projectId |-> p,
                            email |-> e, role |-> role, status |-> "PENDING",
                            invitedBy |-> u, expiresAt |-> now + ExpiryWeeks]}
                     /\ nextId' = [nextId EXCEPT !.invitation = @ + 1]
                ELSE UNCHANGED <<invitations, nextId>>
  /\ UNCHANGED <<now, tenantStatus, projects, members, joinRequests, tasks,
                 comments, attachments, notifications, activityLog, inflight>>

\* POST /api/invitations up to its last read, for the calls that overlap: the
\* project, the guard, the caller's role, the membership of the addressee and
\* the findFirst of a pending invitation; the insert follows in its own step
CreateInvitationFind(u, p, e, role) ==
  /\ authenticate(u) = "ok"
  /\ CanStart
  /\ IF ProjectById(p) = {}
     THEN /\ last' = Reply("createInvitation", u, p, "NotFound", "none", {"auth"}, FALSE)
          /\ UNCHANGED inflight
     ELSE LET project == CHOOSE x \in ProjectById(p) : TRUE
              g == Gate(u, project.tenantId, p, {x \in ProjectRole : canAdmin(x)})
              existingUser == {x \in Users : UserEmail[x] = e /\
                                             UserTenant[x] = UserTenant[u]}
              existingMember == \E x \in existingUser : MemberRows(members, p, x) # {}
              existingInvitation ==
                {x \in invitations : x.projectId = p /\ x.email = e /\
                                     x.status = "PENDING"}
              overlap == \E r \in Requests : /\ r.op = "createInvitation"
                                             /\ r.id = p /\ r.row.email = e
          IN IF g.kind # "pass"
             THEN /\ last' = Reply("createInvitation", u, p, g.kind, project.tenantId,
                                   g.checks, FALSE)
                  /\ UNCHANGED inflight
             ELSE IF existingMember
             THEN /\ last' = Reply("createInvitation", u, p, "Conflict",
                                   project.tenantId, g.checks, FALSE)
                  /\ UNCHANGED inflight
             ELSE IF existingInvitation # {}
             THEN /\ last' = [Reply("createInvitation", u, p, "Conflict",
                                    project.tenantId, g.checks, FALSE)
                                EXCEPT !.pre = "PENDING", !.overlap = overlap]
                  /\ UNCHANGED inflight
             ELSE /\ inflight' = Suspend(
                       [Request("createInvitation", "insert", u, p,
                                [id |-> 0, tenantId |-> UserTenant[u], projectId |-> p,
                                 email |-> e, role |-> role],
                                project.tenantId)
                          EXCEPT !.checks = g.checks, !.overlap = overlap])
                  /\ UNCHANGED last
  /\ UNCHANGED <<now, tenantStatus, db>>

\* POST /api/invitations, the invitation.create and the 201 response; once
\* MaxInvitations rows were created only the insert for an already invited
\* (project, email) is still sent
CreateInvitationInsert(r) ==
  /\ r.op = "createInvitation" /\ r.pc = "insert"
  /\ LET sent == {x \in invitations : x.projectId = r.row.projectId /\
                                      x.email = r.row.email}
         err == IF ProjectById(r.row.projectId) = {} THEN "P2003"
                ELSE IF ~unique_project_email(invitations, r.row.projectId,
                                              r.row.email)
                THEN "P2002"
                ELSE "ok"
     IN /\ nextId.invitation <= MaxInvitations \/ sent # {}
        /\ IF err = "ok"
           THEN /\ invitations' = invitations \cup
                     {[id |-> nextId.invitation, token |-> nextId.invitation,
                       tenantId |-> r.row.tenantId, projectId |-> r.row.projectId,
                       email |-> r.row.email, role |-> r.row.role,
                       status |-> "PENDING", invitedBy |-> r.user,
                       expiresAt |-> now + ExpiryWeeks]}
                /\ nextId' = [nextId EXCEPT !.invitation = @ + 1]
                /\ last' = [Finish(r, "OK") EXCEPT !.wrote = TRUE]
           ELSE /\ last' = Finish(r, errorHandler(err))
                /\ UNCHANGED <<invitations, nextId>>
  /\ inflight' = Done(r)
  /\ UNCHANGED <<now, tenantStatus, projects, members, joinRequests, tasks,
                 comments, attachments, notifications, activityLog>>

\* GET /api/invitations/:token, the findFirst
GetInvitation(u, tok) ==
  /\ authenticate(u) = "ok"
  /\ CanStart
  /\ IF PendingByToken(tok) = {}
     THEN /\ last' = [Reply("getInvitation", u, tok, "NotFound", TokenTenant(tok),
                            {"auth"}, FALSE)
                        EXCEPT !.pre = TokenStatus(tok), !.at = now]
          /\ UNCHANGED inflight
     ELSE /\ inflight' = Suspend(
               [Request("getInvitation", "check", u, tok,
                        CHOOSE x \in PendingByToken(tok) : TRUE, TokenTenant(tok))
                  EXCEPT !.pre = TokenStatus(tok)])
          /\ UNCHANGED last
  /\ UNCHANGED <<now, tenantStatus, db>>

\* a caller that sends no Authorization header
Anonymous == "anonymous"

\* GET /api/invitations/:token without a credential: router.use(authenticate)
\* answers 401 and the route is not run
GetInvitationAnonymous(tok) ==
  /\ authenticate(Anonymous) # "ok"
  /\ last' = [Reply("getInvitation", Anonymous, tok, authenticate(Anonymous),
                    TokenTenant(tok), {}, FALSE)
                EXCEPT !.pre = TokenStatus(tok), !.at = now]
  /\ UNCHANGED <<now, tenantStatus, db, inflight>>

\* GET /api/invitations/:token, the expiry check and its lazy update
GetInvitationCheck(r) ==
  /\ r.op = "getInvitation" /\ r.pc = "check"
  /\ IF now > r.row.expiresAt
     THEN IF InvitationById(r.row.id) = {}
          THEN /\ last' = [Finish(r, errorHandler("P2025")) EXCEPT !.at = now]
               /\ UNCHANGED invitations
          ELSE /\ invitations' = SetInvitationStatus(r.row.id, "EXPIRED")
               /\ last' = [Finish(r, "Gone") EXCEPT !.at = now, !.wrote = TRUE]
     ELSE /\ last' = [Finish(r, "OK") EXCEPT !.at = now, !.rows = 1]
          /\ UNCHANGED invitations
  /\ inflight' = Done(r)
  /\ UNCHANGED <<now, tenantStatus, projects, members, joinRequests, tasks,
                 comments, attachments, notifications, activityLog, nextId>>

\* POST /api/invitations/:token/accept, the findFirst
AcceptInvitation(u, tok) ==
  /\ authenticate(u) = "ok"
  /\ CanStart
  /\ LET overlap == \E r \in Requests : r.op = "acceptInvitation" /\ r.id = tok
     IN IF PendingByToken(tok) = {}
        THEN /\ last' = [Reply("acceptInvitation", u, tok, "NotFound",
                               TokenTenant(tok), {"auth"}, FALSE)
                           EXCEPT !.pre = TokenStatus(tok), !.overlap = overlap]
             /\ UNCHANGED inflight
        ELSE /\ inflight' = Suspend(
                  [Request("acceptInvitation", "check", u, tok,
                           CHOOSE x \in PendingByToken(tok) : TRUE, TokenTenant(tok))
                     EXCEPT !.pre = TokenStatus(tok), !.overlap = overlap])
             /\ UNCHANGED last
  /\ UNCHANGED <<now, tenantStatus, db>>

\* accept: expiry check, email match, tenant guard
AcceptInvitationCheck(r) ==
  /\ r.op = "acceptInvitation" /\ r.pc = "check"
  /\ IF now > r.row.expiresAt
     THEN /\ IF InvitationById(r.row.id) = {}
             THEN /\ last' = Finish(r, errorHandler("P2025"))
                  /\ UNCHANGED invitations
             ELSE /\ invitations' = SetInvitationStatus(r.row.id, "EXPIRED")
                  /\ last' = [Finish(r, "Gone") EXCEPT !.wrote = TRUE]
          /\ inflight' = Done(r)
     ELSE IF UserEmail[r.user] # r.row.email
     THEN /\ last' = Finish(r, "Forbidden")
          /\ inflight' = Done(r)
          /\ UNCHANGED invitations
     ELSE IF ~ensureTenantAccess(UserTenant[r.user], r.row.tenantId)
     THEN /\ last' = Finish(r, errorHandler("TenantMismatch"))
          /\ inflight' = Done(r)
          /\ UNCHANGED invitations
     ELSE /\ inflight' = Resume(r, [r EXCEPT !.pc = "member",
                                             !.checks = @ \cup {"guard"}])
          /\ UNCHANGED <<invitations, last>>
  /\ UNCHANGED <<now, tenantStatus, projects, members, joinRequests, tasks,
                 comments, attachments, notifications, activityLog, nextId>>

\* accept with the status transition moved ahead of the membership insert:
\* the invitation is marked ACCEPTED as soon as no membership row is found
AcceptInvitationMember_statusFirst(r) ==
  /\ r.op = "acceptInvitation" /\ r.pc = "member"
  /\ IF MemberRows(members, r.row.projectId, r.user) # {}
     THEN /\ inflight' = Resume(r, [r EXCEPT !.pc = "dup"])
          /\ UNCHANGED invitations
     ELSE /\ inflight' = Resume(r, [r EXCEPT !.pc = "create"])
          /\ invitations' = SetInvitationStatus(r.row.id, "ACCEPTED")
  /\ UNCHANGED <<now, tenantStatus, projects, members, joinRequests, tasks,
                 comments, attachments, notifications, activityLog, nextId, last>>

\* accept: projectMember.findFirst for the accepting user
AcceptInvitationMember(r) ==
  /\ r.op = "acceptInvitation" /\ r.pc = "member"
  /\ inflight' = Resume(r, [r EXCEPT !.pc =
        IF MemberRows(members, r.row.projectId, r.user) # {} THEN "dup" ELSE "create"])
  /\ UNCHANGED <<now, tenantStatus, db, last>>

\* accept: already a member, 409 returned with the status update left out
AcceptInvitationDup_keepPending(r) ==
  /\ r.op = "acceptInvitation" /\ r.pc = "dup"
  /\ last' = Finish(r, "Conflict")
  /\ inflight' = Done(r)
  /\ UNCHANGED <<now, tenantStatus, db>>

\* accept: already a member, the invitation is marked ACCEPTED and 409 returned
AcceptInvitationDup(r) ==
  /\ r.op = "acceptInvitation" /\ r.pc = "dup"
  /\ IF InvitationById(r.row.id) = {}
     THEN /\ last' = Finish(r, errorHandler("P2025"))
          /\ UNCHANGED invitations
     ELSE /\ invitations' = SetInvitationStatus(r.row.id, "ACCEPTED")
          /\ last' = [Finish(r, "Conflict") EXCEPT !.wrote = TRUE]
  /\ inflight' = Done(r)
  /\ UNCHANGED <<now, tenantStatus, projects, members, joinRequests, tasks,
                 comments, attachments, notifications, activityLog, nextId>>

\* accept: projectMember.create at the invitation's role
AcceptInvitationCreate(r) ==
  /\ r.op = "acceptInvitation" /\ r.pc = "create"
  /\ LET err == MemberCreateError(r.row.projectId, r.user)
     IN IF err = "ok"
        THEN /\ members' = members (+) SetToBag(
                  {MemberRow(r.row.tenantId, r.row.projectId, r.user, r.row.role)})
             /\ inflight' = Resume(r, [r EXCEPT !.pc = "status", !.wrote = TRUE])
             /\ UNCHANGED last
        ELSE /\ last' = Finish(r, errorHandler(err))
             /\ inflight' = Done(r)
             /\ UNCHANGED members
  /\ UNCHANGED <<now, tenantStatus, projects, invitations, joinRequests, tasks,
                 comments, attachments, notifications, activityLog, nextId>>

\* accept: invitation.update to ACCEPTED
AcceptInvitationStatus(r) ==
  /\ r.op = "acceptInvitation" /\ r.pc = "status"
  /\ IF InvitationById(r.row.id) = {}
     THEN /\ last' = Finish(r, errorHandler("P2025"))
          /\ inflight' = Done(r)
          /\ UNCHANGED invitations
     ELSE /\ invitations' = SetInvitationStatus(r.row.id, "ACCEPTED")
          /\ inflight' = Resume(r, [r EXCEPT !.pc = "log"])
          /\ UNCHANGED last
  /\ UNCHANGED <<now, tenantStatus, projects, members, joinRequests, tasks,
                 comments, attachments, notifications, activityLog, nextId>>

\* accept: activityLog.create and the 200 response
AcceptInvitationLog(r) ==
  /\ r.op = "acceptInvitation" /\ r.pc = "log"
  /\ IF ProjectById(r.row.projectId) # {}
     THEN /\ activityLog' = activityLog \cup
               {ActivityRow(r.row.tenantId, r.row.projectId, r.user, "joined",
                            "project")}
          /\ last' = Finish(r, "OK")
     ELSE /\ last' = Finish(r, errorHandler("P2003"))
          /\ UNCHANGED activityLog
  /\ inflight' = Done(r)
  /\ UNCHANGED <<now, tenantStatus, projects, members, invitations, joinRequests,
                 tasks, comments, attachments, notifications, nextId>>

\* ---------------------------------------------------------- join requests

ProjectByCode(c) == {x \in projects : x.code = c}

\* projectMember.findFirst({ projectId, userId, role: { in: ['OWNER', 'ADMIN'] } })
AdminMembership(p, u) ==
  {m \in MemberRows(members, p, u) : m.role \in {"OWNER", "ADMIN"}}

PendingRequests(p, u) ==
  {x \in joinRequests : x.projectId = p /\ x.userId = u /\ x.status = "PENDING"}

\* GET /api/join-requests/search/:code
SearchProject(u, c) ==
  /\ authenticate(u) = "ok"
  /\ IF ProjectByCode(c) = {}
     THEN last' = Reply("searchProject", u, c, "NotFound", "none", {"auth"}, FALSE)
     ELSE LET project == CHOOSE x \in ProjectByCode(c) : TRUE
          IN last' = [Reply("searchProject", u, c, "OK", project.tenantId, {"auth"},
                            FALSE)
                        EXCEPT !.access = HasAccess(u, project.id), !.rows = 1]
  /\ UNCHANGED <<now, tenantStatus, db, inflight>>

\* POST /api/join-requests without the test of the project's tenant
CreateJoinRequest_anyTenant(u, c) ==
  /\ authenticate(u) = "ok"
  /\ nextId.joinRequest <= MaxJoinRequests
  /\ IF ProjectByCode(c) = {}
     THEN /\ last' = Reply("createJoinRequest", u, c, "NotFound", "none", {"auth"}, FALSE)
          /\ UNCHANGED <<joinRequests, notifications, nextId>>
     ELSE LET project == CHOOSE x \in ProjectByCode(c) : TRUE
              isMember == MemberRows(members, project.id, u) # {}
              ownerMember == {m \in BagToSet(members) :
                                m.projectId = project.id /\ m.role = "OWNER"}
              ownerId == IF ownerMember # {}
                         THEN (CHOOSE m \in ownerMember : TRUE).userId
                         ELSE project.createdBy
              kind == IF isMember THEN "BadRequest"
                      ELSE IF PendingRequests(project.id, u) # {} THEN "BadRequest"
                      ELSE "OK"
          IN /\ last' = Reply("createJoinRequest", u, c, kind, project.tenantId,
                              {"auth"}, kind = "OK")
             /\ IF kind = "OK"
                THEN /\ joinRequests' = joinRequests \cup
                          {[id |-> nextId.joinRequest, tenantId |-> UserTenant[u],
                            projectId |-> project.id, userId |-> u,
                            status |-> "PENDING"]}
                     /\ notifications' = notifications \cup
                          {NotificationRow(UserTenant[u], ownerId, "New Join Request",
                                           project.id, nextId.joinRequest)}
                     /\ nextId' = [nextId EXCEPT !.joinRequest = @ + 1]
                ELSE UNCHANGED <<joinRequests, notifications, nextId>>
  /\ UNCHANGED <<now, tenantStatus, projects, members, invitations, tasks,
                 comments, attachments, activityLog, inflight>>


\* POST /api/join-requests
CreateJoinRequest(u, c) ==
  /\ authenticate(u) = "ok"
  /\ nextId.joinRequest <= MaxJoinRequests
  /\ IF ProjectByCode(c) = {}
     THEN /\ last' = Reply("createJoinRequest", u, c, "NotFound", "none", {"auth"}, FALSE)
          /\ UNCHANGED <<joinRequests, notifications, nextId>>
     ELSE LET project == CHOOSE x \in ProjectByCode(c) : TRUE
              isMember == MemberRows(members, project.id, u) # {}
              ownerMember == {m \in BagToSet(members) :
                                m.projectId = project.id /\ m.role = "OWNER"}
              ownerId == IF ownerMember # {}
                         THEN (CHOOSE m \in ownerMember : TRUE).userId
                         ELSE project.createdBy
              kind == IF project.tenantId # UserTenant[u] THEN "Forbidden"
                      ELSE IF isMember THEN "BadRequest"
                      ELSE IF PendingRequests(project.id, u) # {} THEN "BadRequest"
                      ELSE "OK"
          IN /\ last' = Reply("createJoinRequest", u, c, kind, project.tenantId,
                              {"auth"}, kind = "OK")
             /\ IF kind = "OK"
                THEN /\ joinRequests' = joinRequests \cup
                          {[id |-> nextId.joinRequest, tenantId |-> UserTenant[u],
                            projectId |-> project.id, userId |-> u,
                            status |-> "PENDING"]}
                     /\ notifications' = notifications \cup
                          {NotificationRow(UserTenant[u], ownerId, "New Join Request",
                                           project.id, nextId.joinRequest)}
                     /\ nextId' = [nextId EXCEPT !.joinRequest = @ + 1]
                ELSE UNCHANGED <<joinRequests, notifications, nextId>>
  /\ UNCHANGED <<now, tenantStatus, projects, members, invitations, tasks,
                 comments, attachments, activityLog, inflight>>

\* the store's unique constraint on the pending subset of
\* join_requests (project_id, user_id): TRUE when the insert is accepted
unique_pending_request(js, p, u) ==
  {x \in js : x.projectId = p /\ x.userId = u /\ x.status = "PENDING"} = {}

\* POST /api/join-requests, the load of the project, with the isMember test
\* left out
CreateJoinRequestLoad_noMemberTest(u, c) ==
  /\ authenticate(u) = "ok"
  /\ CanStart
  /\ IF ProjectByCode(c) = {}
     THEN /\ last' = Reply("createJoinRequest", u, c, "NotFound", "none", {"auth"}, FALSE)
          /\ UNCHANGED inflight
     ELSE LET project == CHOOSE x \in ProjectByCode(c) : TRUE
              isMember == MemberRows(members, project.id, u) # {}
              ownerMember == {m \in BagToSet(members) :
                                m.projectId = project.id /\ m.role = "OWNER"}
              ownerId == IF ownerMember # {}
                         THEN (CHOOSE m \in ownerMember : TRUE).userId
                         ELSE project.createdBy
              pre == IF isMember THEN "MEMBER" ELSE "NONE"
              overlap == \E r \in Requests : /\ r.op = "createJoinRequest"
                                             /\ r.id = c /\ r.user = u
          IN IF project.tenantId # UserTenant[u]
             THEN /\ last' = [Reply("createJoinRequest", u, c, "Forbidden",
                                    project.tenantId, {"auth"}, FALSE)
                                EXCEPT !.pre = pre]
                  /\ UNCHANGED inflight
             ELSE /\ inflight' = Suspend(
                       [Request("createJoinRequest", "find", u, c,
                                [id |-> 0, tenantId |-> UserTenant[u],
                                 projectId |-> project.id, userId |-> u,
                                 ownerId |-> ownerId],
                                project.tenantId)
                          EXCEPT !.pre = pre, !.overlap = overlap])
                  /\ UNCHANGED last
  /\ UNCHANGED <<now, tenantStatus, db>>

\* POST /api/join-requests for the calls that overlap, the load: the project
\* with its members and creator, the tenant test and the isMember test on the
\* loaded members; the owner to notify is taken from the same load
CreateJoinRequestLoad(u, c) ==
  /\ authenticate(u) = "ok"
  /\ CanStart
  /\ IF ProjectByCode(c) = {}
     THEN /\ last' = Reply("createJoinRequest", u, c, "NotFound", "none", {"auth"}, FALSE)
          /\ UNCHANGED inflight
     ELSE LET project == CHOOSE x \in ProjectByCode(c) : TRUE
              isMember == MemberRows(members, project.id, u) # {}
              ownerMember == {m \in BagToSet(members) :
                                m.projectId = project.id /\ m.role = "OWNER"}
              ownerId == IF ownerMember # {}
                         THEN (CHOOSE m \in ownerMember : TRUE).userId
                         ELSE project.createdBy
              pre == IF isMember THEN "MEMBER" ELSE "NONE"
              overlap == \E r \in Requests : /\ r.op = "createJoinRequest"
                                             /\ r.id = c /\ r.user = u
          IN IF project.tenantId # UserTenant[u]
             THEN /\ last' = [Reply("createJoinRequest", u, c, "Forbidden",
                                    project.tenantId, {"auth"}, FALSE)
                                EXCEPT !.pre = pre]
                  /\ UNCHANGED inflight
             ELSE IF isMember
             THEN /\ last' = [Reply("createJoinRequest", u, c, "BadRequest",
                                    project.tenantId, {"auth"}, FALSE)
                                EXCEPT !.pre = pre]
                  /\ UNCHANGED inflight
             ELSE /\ inflight' = Suspend(
                       [Request("createJoinRequest", "find", u, c,
                                [id |-> 0, tenantId |-> UserTenant[u],
                                 projectId |-> project.id, userId |-> u,
                                 ownerId |-> ownerId],
                                project.tenantId)
                          EXCEPT !.pre = pre, !.overlap = overlap])
                  /\ UNCHANGED last
  /\ UNCHANGED <<now, tenantStatus, db>>

\* create: joinRequest.findFirst of the caller's pending request
CreateJoinRequestFind(r) ==
  /\ r.op = "createJoinRequest" /\ r.pc = "find"
  /\ IF PendingRequests(r.row.projectId, r.user) # {}
     THEN /\ last' = Finish(r, "BadRequest")
          /\ inflight' = Done(r)
     ELSE /\ inflight' = Resume(r, [r EXCEPT !.pc = "insert"])
          /\ UNCHANGED last
  /\ UNCHANGED <<now, tenantStatus, db>>

\* create: joinRequest.create; once MaxJoinRequests rows were created only
\* the insert that repeats a pending request is still sent
CreateJoinRequestInsert(r) ==
  /\ r.op = "createJoinRequest" /\ r.pc = "insert"
  /\ LET err == IF ProjectById(r.row.projectId) = {} THEN "P2003"
                ELSE IF ~unique_pending_request(joinRequests, r.row.projectId,
                                                r.user)
                THEN "P2002"
                ELSE "ok"
     IN /\ \/ nextId.joinRequest <= MaxJoinRequests
           \/ PendingRequests(r.row.projectId, r.user) # {}
        /\ IF err = "ok"
           THEN /\ joinRequests' = joinRequests \cup
                     {[id |-> nextId.joinRequest, tenantId |-> r.row.tenantId,
                       projectId |-> r.row.projectId, userId |-> r.user,
                       status |-> "PENDING"]}
                /\ nextId' = [nextId EXCEPT !.joinRequest = @ + 1]
                /\ inflight' = Resume(r, [r EXCEPT !.pc = "notify", !.wrote = TRUE,
                                                   !.row.id = nextId.joinRequest])
                /\ UNCHANGED last
           ELSE /\ last' = Finish(r, errorHandler(err))
                /\ inflight' = Done(r)
                /\ UNCHANGED <<joinRequests, nextId>>
  /\ UNCHANGED <<now, tenantStatus, projects, members, invitations, tasks,
                 comments, attachments, notifications, activityLog>>

\* create: the notification addressed to the requester in place of the owner
CreateJoinRequestNotify_toRequester(r) ==
  /\ r.op = "createJoinRequest" /\ r.pc = "notify"
  /\ IF ProjectById(r.row.projectId) # {}
     THEN notifications' = notifications \cup
            {NotificationRow(r.row.tenantId, r.user, "New Join Request",
                             r.row.projectId, r.row.id)}
     ELSE UNCHANGED notifications
  /\ last' = Finish(r, "OK")
  /\ inflight' = Done(r)
  /\ UNCHANGED <<now, tenantStatus, projects, members, invitations, joinRequests,
                 tasks, comments, attachments, activityLog, nextId>>

\* create: notification.create for the owner and the 201 response; the insert
\* fails when the project's row is gone, and the failure is caught and logged
CreateJoinRequestNotify(r) ==
  /\ r.op = "createJoinRequest" /\ r.pc = "notify"
  /\ IF ProjectById(r.row.projectId) # {}
     THEN notifications' = notifications \cup
            {NotificationRow(r.row.tenantId, r.row.ownerId, "New Join Request",
                             r.row.projectId, r.row.id)}
     ELSE UNCHANGED notifications
  /\ last' = Finish(r, "OK")
  /\ inflight' = Done(r)
  /\ UNCHANGED <<now, tenantStatus, projects, members, invitations, joinRequests,
                 tasks, comments, attachments, activityLog, nextId>>

\* create: notification.create throws; the catch around it logs the error
\* and the route still answers 201
CreateJoinRequestNotifyFails(r) ==
  /\ r.op = "createJoinRequest" /\ r.pc = "notify"
  /\ last' = Finish(r, "OK")
  /\ inflight' = Done(r)
  /\ UNCHANGED <<now, tenantStatus, db>>

\* the tenant of the project, "none" when there is no such project
ProjectTenant(p) ==
  IF ProjectById(p) = {} THEN "none"
  ELSE (CHOOSE x \in ProjectById(p) : TRUE).tenantId

\* GET /api/join-requests/project/:projectId
ListJoinRequests(u, p) ==
  /\ authenticate(u) = "ok"
  /\ LET found == {x \in joinRequests : x.projectId = p /\ x.status = "PENDING"}
     IN IF AdminMembership(p, u) = {}
        THEN last' = Reply("listJoinRequests", u, p, "Forbidden", ProjectTenant(p),
                           {"auth"}, FALSE)
        ELSE last' = [Reply("listJoinRequests", u, p, "OK", ProjectTenant(p),
                            {"auth"}, FALSE)
                        EXCEPT !.access = HasAccess(u, p),
                               !.rows = Cardinality(found)]
  /\ UNCHANGED <<now, tenantStatus, db, inflight>>

\* POST /api/join-requests/:requestId/accept, the findUnique with project.members
AcceptJoinRequest(u, j) ==
  /\ authenticate(u) = "ok"
  /\ CanStart
  /\ IF JoinRequestById(j) = {}
     THEN /\ last' = Reply("acceptJoinRequest", u, j, "NotFound", "none", {"auth"}, FALSE)
          /\ UNCHANGED inflight
     ELSE LET joinRequest == CHOOSE x \in JoinRequestById(j) : TRUE
          IN /\ inflight' = Suspend(
                  [Request("acceptJoinRequest", "perm", u, j, joinRequest,
                           joinRequest.tenantId)
                     EXCEPT !.pre = joinRequest.status,
                            !.snap = MemberRows(members, joinRequest.projectId,
                                                joinRequest.userId) # {}])
             /\ UNCHANGED last
  /\ UNCHANGED <<now, tenantStatus, db>>

\* accept: the caller's OWNER/ADMIN membership, then isMember on the loaded members
AcceptJoinRequestPerm(r) ==
  /\ r.op = "acceptJoinRequest" /\ r.pc = "perm"
  /\ IF AdminMembership(r.row.projectId, r.user) = {}
     THEN /\ last' = Finish(r, "Forbidden")
          /\ inflight' = Done(r)
     ELSE IF r.snap
     THEN /\ last' = Finish(r, "BadRequest")
          /\ inflight' = Done(r)
     ELSE /\ inflight' = Resume(r, [r EXCEPT !.pc = "status"])
          /\ UNCHANGED last
  /\ UNCHANGED <<now, tenantStatus, db>>

\* accept: joinRequest.update to ACCEPTED
AcceptJoinRequestStatus(r) ==
  /\ r.op = "acceptJoinRequest" /\ r.pc = "status"
  /\ IF JoinRequestById(r.row.id) = {}
     THEN /\ last' = Finish(r, errorHandler("P2025"))
          /\ inflight' = Done(r)
          /\ UNCHANGED joinRequests
     ELSE /\ joinRequests' = SetJoinRequestStatus(r.row.id, "ACCEPTED")
          /\ inflight' = Resume(r, [r EXCEPT !.pc = "create", !.wrote = TRUE])
          /\ UNCHANGED last
  /\ UNCHANGED <<now, tenantStatus, projects, members, invitations, tasks,
                 comments, attachments, notifications, activityLog, nextId>>

\* accept: projectMember.create with role ADMIN in place of MEMBER
AcceptJoinRequestCreate_admin(r) ==
  /\ r.op = "acceptJoinRequest" /\ r.pc = "create"
  /\ LET err == MemberCreateError(r.row.projectId, r.row.userId)
     IN IF err = "ok"
        THEN /\ members' = members (+) SetToBag(
                  {MemberRow(r.row.tenantId, r.row.projectId, r.row.userId, "ADMIN")})
             /\ inflight' = Resume(r, [r EXCEPT !.pc = "notify"])
             /\ UNCHANGED last
        ELSE /\ last' = Finish(r, errorHandler(err))
             /\ inflight' = Done(r)
             /\ UNCHANGED members
  /\ UNCHANGED <<now, tenantStatus, projects, invitations, joinRequests, tasks,
                 comments, attachments, notifications, activityLog, nextId>>

\* accept: projectMember.create with role MEMBER
AcceptJoinRequestCreate(r) ==
  /\ r.op = "acceptJoinRequest" /\ r.pc = "create"
  /\ LET err == MemberCreateError(r.row.projectId, r.row.userId)
     IN IF err = "ok"
        THEN /\ members' = members (+) SetToBag(
                  {MemberRow(r.row.tenantId, r.row.projectId, r.row.userId, "MEMBER")})
             /\ inflight' = Resume(r, [r EXCEPT !.pc = "notify"])
             /\ UNCHANGED last
        ELSE /\ last' = Finish(r, errorHandler(err))
             /\ inflight' = Done(r)
             /\ UNCHANGED members
  /\ UNCHANGED <<now, tenantStatus, projects, invitations, joinRequests, tasks,
                 comments, attachments, notifications, activityLog, nextId>>

\* accept: notification.create for the requester and the 200 response
AcceptJoinRequestNotify(r) ==
  /\ r.op = "acceptJoinRequest" /\ r.pc = "notify"
  /\ notifications' = notifications \cup
       {NotificationRow(r.row.tenantId, r.row.userId, "Join Request Accepted",
                        r.row.projectId, 0)}
  /\ last' = Finish(r, "OK")
  /\ inflight' = Done(r)
  /\ UNCHANGED <<now, tenantStatus, projects, members, invitations, joinRequests,
                 tasks, comments, attachments, activityLog, nextId>>

\* accept: notification.create throws; nothing catches it before the route's
\* own catch, which hands it to errorHandler
AcceptJoinRequestNotifyFails(r) ==
  /\ r.op = "acceptJoinRequest" /\ r.pc = "notify"
  /\ last' = Finish(r, errorHandler("P1001"))
  /\ inflight' = Done(r)
  /\ UNCHANGED <<now, tenantStatus, db>>

\* decline by a caller with an OWNER/ADMIN row whose notification.create
\* throws: the status is written, the error goes to errorHandler
DeclineJoinRequestNotifyFails(u, j) ==
  /\ authenticate(u) = "ok"
  /\ JoinRequestById(j) # {}
  /\ LET joinRequest == CHOOSE x \in JoinRequestById(j) : TRUE
     IN /\ AdminMembership(joinRequest.projectId, u) # {}
        /\ joinRequests' = SetJoinRequestStatus(j, "DECLINED")
        /\ last' = [Reply("declineJoinRequest", u, j, errorHandler("P1001"),
                          joinRequest.tenantId, {"auth"}, TRUE)
                      EXCEPT !.pre = joinRequest.status]
  /\ UNCHANGED <<now, tenantStatus, projects, members, invitations, tasks,
                 comments, attachments, notifications, activityLog, nextId,
                 inflight>>

\* POST /api/join-requests/:requestId/decline
DeclineJoinRequest(u, j) ==
  /\ authenticate(u) = "ok"
  /\ IF JoinRequestById(j) = {}
     THEN /\ last' = Reply("declineJoinRequest", u, j, "NotFound", "none", {"auth"}, FALSE)
          /\ UNCHANGED <<joinRequests, notifications>>
     ELSE LET joinRequest == CHOOSE x \in JoinRequestById(j) : TRUE
          IN IF AdminMembership(joinRequest.projectId, u) = {}
             THEN /\ last' = [Reply("declineJoinRequest", u, j, "Forbidden",
                                    joinRequest.tenantId, {"auth"}, FALSE)
                                EXCEPT !.pre = joinRequest.status]
                  /\ UNCHANGED <<joinRequests, notifications>>
             ELSE /\ joinRequests' = SetJoinRequestStatus(j, "DECLINED")
                  /\ notifications' = notifications \cup
                       {NotificationRow(joinRequest.tenantId, joinRequest.userId,
                                        "Join Request Declined",
                                        joinRequest.projectId, 0)}
                  /\ last' = [Reply("declineJoinRequest", u, j, "OK",
                                    joinRequest.tenantId, {"auth"}, TRUE)
                                EXCEPT !.pre = joinRequest.status]
  /\ UNCHANGED <<now, tenantStatus, projects, members, invitations, tasks,
                 comments, attachments, activityLog, nextId, inflight>>

\* ------------------------------------------------------------------ tasks

\* POST /api/tasks
CreateTask(u, p) ==
  /\ authenticate(u) = "ok"
  /\ nextId.task <= MaxTasks
  /\ IF ProjectById(p) = {}
     THEN /\ last' = Reply("createTask", u, p, "NotFound", "none", {"auth"}, FALSE)
          /\ UNCHANGED <<tasks, activityLog, nextId>>
     ELSE LET project == CHOOSE x \in ProjectById(p) : TRUE
              g == Gate(u, project.tenantId, p, {x \in ProjectRole : canWrite(x)})
          IN IF g.kind = "pass"
             THEN /\ tasks' = tasks \cup
                       {[id |-> nextId.task, tenantId |-> UserTenant[u],
                         projectId |-> p, createdBy |-> u]}
                  /\ activityLog' = activityLog \cup
                       {ActivityRow(UserTenant[u], p, u, "created", "task")}
                  /\ nextId' = [nextId EXCEPT !.task = @ + 1]
                  /\ last' = Reply("createTask", u, p, "OK", project.tenantId,
                                   g.checks, TRUE)
             ELSE /\ last' = Reply("createTask", u, p, g.kind, project.tenantId,
                                   g.checks, FALSE)
                  /\ UNCHANGED <<tasks, activityLog, nextId>>
  /\ UNCHANGED <<now, tenantStatus, projects, members, invitations, joinRequests,
                 comments, attachments, notifications, inflight>>

\* PUT /api/tasks/:id
UpdateTask(u, t) ==
  /\ authenticate(u) = "ok"
  /\ IF TaskById(t) = {}
     THEN /\ last' = Reply("updateTask", u, t, "NotFound", "none", {"auth"}, FALSE)
          /\ UNCHANGED activityLog
     ELSE LET task == CHOOSE x \in TaskById(t) : TRUE
              g == Gate(u, task.tenantId, task.projectId,
                        {x \in ProjectRole : canWrite(x)})
          IN IF g.kind = "pass"
             THEN /\ activityLog' = activityLog \cup
                       {ActivityRow(UserTenant[u], task.projectId, u, "updated", "task")}
                  /\ last' = Reply("updateTask", u, t, "OK", task.tenantId,
                                   g.checks, TRUE)
             ELSE /\ last' = Reply("updateTask", u, t, g.kind, task.tenantId,
                                   g.checks, FALSE)
                  /\ UNCHANGED activityLog
  /\ UNCHANGED <<now, tenantStatus, projects, members, invitations, joinRequests,
                 tasks, comments, attachments, notifications, nextId, inflight>>

\* DELETE /api/tasks/:id, with the cascade to its comments and attachments
DeleteTask(u, t) ==
  /\ authenticate(u) = "ok"
  /\ IF TaskById(t) = {}
     THEN /\ last' = Reply("deleteTask", u, t, "NotFound", "none", {"auth"}, FALSE)
          /\ UNCHANGED <<tasks, comments, attachments, activityLog>>
     ELSE LET task == CHOOSE x \in TaskById(t) : TRUE
              g == Gate(u, task.tenantId, task.projectId,
                        {x \in ProjectRole : canWrite(x)})
          IN IF g.kind = "pass"
             THEN /\ tasks' = tasks \ {task}
                  /\ comments' = {x \in comments : x.taskId # t}
                  /\ attachments' = {x \in attachments : x.taskId # t}
                  /\ activityLog' = activityLog \cup
                       {ActivityRow(UserTenant[u], task.projectId, u, "deleted", "task")}
                  /\ last' = Reply("deleteTask", u, t, "OK", task.tenantId,
                                   g.checks, TRUE)
             ELSE /\ last' = Reply("deleteTask", u, t, g.kind, task.tenantId,
                                   g.checks, FALSE)
                  /\ UNCHANGED <<tasks, comments, attachments, activityLog>>
  /\ UNCHANGED <<now, tenantStatus, projects, members, invitations, joinRequests,
                 notifications, nextId, inflight>>

\* the read behind GET /api/tasks/:id, GET .../comments and GET .../attachments:
\* the task is loaded, the tenant guard runs, the rows are returned
ReadTask(op, u, t, found) ==
  IF TaskById(t) = {}
  THEN Reply(op, u, t, "NotFound", "none", {"auth"}, FALSE)
  ELSE LET task == CHOOSE x \in TaskById(t) : TRUE
       IN IF ~ensureTenantAccess(UserTenant[u], task.tenantId)
          THEN Reply(op, u, t, errorHandler("TenantMismatch"), task.tenantId,
                     {"auth"}, FALSE)
          ELSE [Reply(op, u, t, "OK", task.tenantId, {"auth", "guard"}, FALSE)
                  EXCEPT !.access = HasAccess(u, task.projectId),
                         !.rows = Cardinality(found)]

\* GET /api/tasks/:id
GetTask(u, t) ==
  /\ authenticate(u) = "ok"
  /\ last' = ReadTask("getTask", u, t, TaskById(t))
  /\ UNCHANGED <<now, tenantStatus, db, inflight>>

\* GET /api/tasks/:taskId/comments
GetTaskComments(u, t) ==
  /\ authenticate(u) = "ok"
  /\ last' = ReadTask("getTaskComments", u, t,
                      {x \in comments : x.taskId = t /\ x.tenantId = UserTenant[u]})
  /\ UNCHANGED <<now, tenantStatus, db, inflight>>

\* GET /api/tasks/:taskId/attachments
GetTaskAttachments(u, t) ==
  /\ authenticate(u) = "ok"
  /\ last' = ReadTask("getTaskAttachments", u, t,
                      {x \in attachments : x.taskId = t /\ x.tenantId = UserTenant[u]})
  /\ UNCHANGED <<now, tenantStatus, db, inflight>>

\* GET /api/projects/:projectId/activities
GetActivities(u, p) ==
  /\ authenticate(u) = "ok"
  /\ IF ProjectById(p) = {}
     THEN last' = Reply("getActivities", u, p, "NotFound", "none", {"auth"}, FALSE)
     ELSE LET project == CHOOSE x \in ProjectById(p) : TRUE
              found == {x \in activityLog :
                          x.projectId = p /\ x.tenantId = UserTenant[u]}
          IN IF ~ensureTenantAccess(UserTenant[u], project.tenantId)
             THEN last' = Reply("getActivities", u, p, errorHandler("TenantMismatch"),
                                project.tenantId, {"auth"}, FALSE)
             ELSE last' = [Reply("getActivities", u, p, "OK", project.tenantId,
                                 {"auth", "guard"}, FALSE)
                             EXCEPT !.access = HasAccess(u, p),
                                    !.rows = Cardinality(found)]
  /\ UNCHANGED <<now, tenantStatus, db, inflight>>

\* -------------------------------------------------- comments, attachments

\* POST /api/tasks/:taskId/comments and POST /api/tasks/:taskId/attachments:
\* kind and checks of the request, "pass" when the row is to be created
CreateOnTask(u, t) ==
  IF TaskById(t) = {} THEN [kind |-> "NotFound", checks |-> {"auth"}, rt |-> "none"]
  ELSE LET task == CHOOSE x \in TaskById(t) : TRUE
           g == Gate(u, task.tenantId, task.projectId, {x \in ProjectRole : canWrite(x)})
       IN [kind |-> g.kind, checks |-> g.checks, rt |-> task.tenantId]

\* DELETE /api/comments/:id and DELETE /api/attachments/:id: the author may
\* delete too, as long as the resolver gives access
DeleteOwned(u, row) ==
  IF TaskById(row.taskId) = {}
  THEN [kind |-> errorHandler("TypeError"), checks |-> {"auth"}]
  ELSE LET task == CHOOSE x \in TaskById(row.taskId) : TRUE
           Allowed == {x \in ProjectRole : canWrite(x) \/ row.userId = u}
           g == Gate(u, row.tenantId, task.projectId, Allowed)
           a == checkProjectAccess(u, task.projectId, UserTenant[u])
       IN [kind |-> g.kind,
           checks |-> IF g.kind = "pass" /\ ~canWrite(a.role)
                      THEN g.checks \ {"perm"} ELSE g.checks]

\* POST /api/tasks/:taskId/comments
CreateComment(u, t) ==
  /\ authenticate(u) = "ok"
  /\ nextId.comment <= MaxComments
  /\ LET g == CreateOnTask(u, t)
     IN IF g.kind = "pass"
        THEN /\ comments' = comments \cup
                  {[id |-> nextId.comment, tenantId |-> UserTenant[u],
                    taskId |-> t, userId |-> u]}
             /\ nextId' = [nextId EXCEPT !.comment = @ + 1]
             /\ last' = Reply("createComment", u, t, "OK", g.rt, g.checks, TRUE)
        ELSE /\ last' = Reply("createComment", u, t, g.kind, g.rt, g.checks, FALSE)
             /\ UNCHANGED <<comments, nextId>>
  /\ UNCHANGED <<now, tenantStatus, projects, members, invitations, joinRequests,
                 tasks, attachments, notifications, activityLog, inflight>>

\* DELETE /api/comments/:id
DeleteComment(u, c) ==
  /\ authenticate(u) = "ok"
  /\ IF {x \in comments : x.id = c} = {}
     THEN /\ last' = Reply("deleteComment", u, c, "NotFound", "none", {"auth"}, FALSE)
          /\ UNCHANGED comments
     ELSE LET comment == CHOOSE x \in comments : x.id = c
              g == DeleteOwned(u, comment)
          IN IF g.kind = "pass"
             THEN /\ comments' = comments \ {comment}
                  /\ last' = Reply("deleteComment", u, c, "OK", comment.tenantId,
                                   g.checks, TRUE)
             ELSE /\ last' = Reply("deleteComment", u, c, g.kind, comment.tenantId,
                                   g.checks, FALSE)
                  /\ UNCHANGED comments
  /\ UNCHANGED <<now, tenantStatus, projects, members, invitations, joinRequests,
                 tasks, attachments, notifications, activityLog, nextId, inflight>>

\* POST /api/tasks/:taskId/attachments
CreateAttachment(u, t) ==
  /\ authenticate(u) = "ok"
  /\ nextId.attachment <= MaxAttachments
  /\ LET g == CreateOnTask(u, t)
     IN IF g.kind = "pass"
        THEN /\ attachments' = attachments \cup
                  {[id |-> nextId.attachment, tenantId |-> UserTenant[u],
                    taskId |-> t, userId |-> u]}
             /\ nextId' = [nextId EXCEPT !.attachment = @ + 1]
             /\ last' = Reply("createAttachment", u, t, "OK", g.rt, g.checks, TRUE)
        ELSE /\ last' = Reply("createAttachment", u, t, g.kind, g.rt, g.checks, FALSE)
             /\ UNCHANGED <<attachments, nextId>>
  /\ UNCHANGED <<now, tenantStatus, projects, members, invitations, joinRequests,
                 tasks, comments, notifications, activityLog, inflight>>

\* DELETE /api/attachments/:id
DeleteAttachment(u, c) ==
  /\ authenticate(u) = "ok"
  /\ IF {x \in attachments : x.id = c} = {}
     THEN /\ last' = Reply("deleteAttachment", u, c, "NotFound", "none", {"auth"}, FALSE)
          /\ UNCHANGED attachments
     ELSE LET attachment == CHOOSE x \in attachments : x.id = c
              g == DeleteOwned(u, attachment)
          IN IF g.kind = "pass"
             THEN /\ attachments' = attachments \ {attachment}
                  /\ last' = Reply("deleteAttachment", u, c, "OK",
                                   attachment.tenantId, g.checks, TRUE)
             ELSE /\ last' = Reply("deleteAttachment", u, c, g.kind,
                                   attachment.tenantId, g.checks, FALSE)
                  /\ UNCHANGED attachments
  /\ UNCHANGED <<now, tenantStatus, projects, members, invitations, joinRequests,
                 tasks, comments, notifications, activityLog, nextId, inflight>>

\* ---------------------------------------------------------- notifications

\* PUT /api/notifications/:id/read
ReadNotification(u, n) ==
  /\ authenticate(u) = "ok"
  /\ n \in notifications
  /\ IF n.userId # u
     THEN /\ last' = Reply("readNotification", u, 0, "Forbidden", n.tenantId,
                           {"auth"}, FALSE)
          /\ UNCHANGED notifications
     ELSE /\ notifications' = (notifications \ {n}) \cup {[n EXCEPT !.read = TRUE]}
          /\ last' = Reply("readNotification", u, 0, "OK", n.tenantId, {"auth"}, TRUE)
  /\ UNCHANGED <<now, tenantStatus, projects, members, invitations, joinRequests,
                 tasks, comments, attachments, activityLog, nextId, inflight>>

\* ------------------------------------------------------------------- Next

ProjectIds == 1 .. MaxProjects
Tokens == 1 .. MaxInvitations
RequestIds == 1 .. MaxJoinRequests
TaskIds == 1 .. MaxTasks
CommentIds == 1 .. MaxComments
AttachmentIds == 1 .. MaxAttachments

\* the requests the clients send: who creates projects, and with which bodies
Creators == {"u1", "u3"}
RoleInputs == {"ADMIN", "VIEWER"}
StatusInputs == {"ARCHIVED"}

ProjectStep ==
  \/ \E u \in Creators : CreateProject(u)
  \/ \E r \in Requests : CreateProjectOwner(r)
  \/ \E r \in Requests : CreateProjectLog(r)
  \/ \E u \in Users, p \in ProjectIds : DeleteProject(u, p)

ProjectCrudStep ==
  \/ \E u \in Users, p \in ProjectIds : GetProject(u, p)
  \/ \E u \in Users, p \in ProjectIds, st \in StatusInputs : UpdateProject(u, p, st)

InvitationStep ==
  \/ \E u \in Users, p \in ProjectIds, e \in Emails, role \in RoleInputs :
       CreateInvitation(u, p, e, role)
  \/ \E u \in Users, tok \in Tokens : AcceptInvitation(u, tok)
  \/ \E r \in Requests : AcceptInvitationCheck(r)
  \/ \E r \in Requests : AcceptInvitationMember(r)
  \/ \E r \in Requests : AcceptInvitationDup(r)
  \/ \E r \in Requests : AcceptInvitationCreate(r)
  \/ \E r \in Requests : AcceptInvitationStatus(r)
  \/ \E r \in Requests : AcceptInvitationLog(r)

LookupStep ==
  \/ \E u \in Users, tok \in Tokens : GetInvitation(u, tok)
  \/ \E r \in Requests : GetInvitationCheck(r)

JoinRequestStep ==
  \/ \E u \in Users, c \in ProjectIds : CreateJoinRequest(u, c)
  \/ \E u \in Users, j \in RequestIds : AcceptJoinRequest(u, j)
  \/ \E r \in Requests : AcceptJoinRequestPerm(r)
  \/ \E r \in Requests : AcceptJoinRequestStatus(r)
  \/ \E r \in Requests : AcceptJoinRequestCreate(r)
  \/ \E r \in Requests : AcceptJoinRequestNotify(r)
  \/ \E u \in Users, j \in RequestIds : DeclineJoinRequest(u, j)

JoinRequestReadStep ==
  \/ \E u \in Users, c \in ProjectIds : SearchProject(u, c)
  \/ \E u \in Users, p \in ProjectIds : ListJoinRequests(u, p)

NotificationStep ==
  \E u \in Users, n \in notifications : ReadNotification(u, n)

TaskStep ==
  \/ \E u \in Users, p \in ProjectIds : CreateTask(u, p)
  \/ \E u \in Users, t \in TaskIds : UpdateTask(u, t)
  \/ \E u \in Users, t \in TaskIds : DeleteTask(u, t)
  \/ \E u \in Users, t \in TaskIds : GetTask(u, t)
  \/ \E u \in Users, p \in ProjectIds : GetProjectTasks(u, p)
  \/ \E u \in Users, p \in ProjectIds : GetActivities(u, p)

CommentStep ==
  \/ \E u \in Users, t \in TaskIds : GetTaskComments(u, t)
  \/ \E u \in Users, t \in TaskIds : GetTaskAttachments(u, t)
  \/ \E u \in Users, t \in TaskIds : CreateComment(u, t)
  \/ \E u \in Users, c \in CommentIds : DeleteComment(u, c)
  \/ \E u \in Users, t \in TaskIds : CreateAttachment(u, t)
  \/ \E u \in Users, c \in AttachmentIds : DeleteAttachment(u, c)

\* projects and the join-request flow
Next ==
  \/ ProjectStep
  \/ ProjectCrudStep
  \/ JoinRequestStep
  \/ JoinRequestReadStep

Spec == Init /\ [][Next]_vars

\* projects with their tasks, comments, attachments and activity
NextTasks ==
  \/ ProjectStep
  \/ TaskStep
  \/ CommentStep

SpecTasks == Init /\ [][NextTasks]_vars

\* the invitation life cycle against the clock
NextInvitation ==
  \/ Tick
  \/ ProjectStep
  \/ InvitationStep
  \/ LookupStep

SpecInvitation == Init /\ [][NextInvitation]_vars

\* the join-request flow with its notifications
NextJoin ==
  \/ ProjectStep
  \/ JoinRequestStep
  \/ NotificationStep

SpecJoin == Init /\ [][NextJoin]_vars

\* every route that writes project_members
NextMembership ==
  \/ ProjectStep
  \/ InvitationStep
  \/ JoinRequestStep

SpecMembership == Init /\ [][NextMembership]_vars

TenantStep ==
  \/ \E t \in Tenants, st \in TenantStatuses : SetTenantStatus(t, st)
  \/ \E u \in Users, op \in {"createProject", "deleteProject", "createTask",
                                 "updateTask", "deleteTask", "getTask"} :
       RejectRequest(u, op)

\* projects and tasks of tenants whose status changes
NextTenant ==
  \/ TenantStep
  \/ ProjectStep
  \/ TaskStep

SpecTenant == Init /\ [][NextTenant]_vars

\* invitations and the project routes behind canWrite and canAdmin
NextRoles ==
  \/ ProjectStep
  \/ ProjectCrudStep
  \/ InvitationStep

SpecRoles == Init /\ [][NextRoles]_vars

InvitationRaceStep ==
  \/ \E u \in Users, p \in ProjectIds, e \in Emails, role \in RoleInputs :
       CreateInvitationFind(u, p, e, role)
  \/ \E r \in Requests : CreateInvitationInsert(r)
  \/ \E u \in Users, tok \in Tokens : AcceptInvitation(u, tok)
  \/ \E r \in Requests : AcceptInvitationCheck(r)
  \/ \E r \in Requests : AcceptInvitationMember(r)
  \/ \E r \in Requests : AcceptInvitationDup(r)
  \/ \E r \in Requests : AcceptInvitationCreate(r)
  \/ \E r \in Requests : AcceptInvitationStatus(r)
  \/ \E r \in Requests : AcceptInvitationLog(r)

\* invitations whose creating calls overlap
NextInvite ==
  \/ ProjectStep
  \/ InvitationRaceStep

SpecInvite == Init /\ [][NextInvite]_vars

MixedCaseStep ==
  \E u \in Users, p \in ProjectIds, e \in MixedCaseEmails, role \in RoleInputs :
    CreateInvitation(u, p, e, role)

\* invitations whose address differs from the account's in letter case only
NextCase ==
  \/ ProjectStep
  \/ InvitationStep
  \/ MixedCaseStep

SpecCase == Init /\ [][NextCase]_vars

\* the invitation life cycle on a server that may stop between two awaits
NextCrash ==
  \/ Crash
  \/ ProjectStep
  \/ InvitationStep

SpecCrash == Init /\ [][NextCrash]_vars

AnonymousStep ==
  \E tok \in Tokens : GetInvitationAnonymous(tok)

\* the lookup route with and without a credential
NextLookup ==
  \/ Tick
  \/ ProjectStep
  \/ InvitationStep
  \/ LookupStep
  \/ AnonymousStep

SpecLookup == Init /\ [][NextLookup]_vars

JoinRequestRaceStep ==
  \/ \E u \in Users, c \in ProjectIds : CreateJoinRequestLoad(u, c)
  \/ \E r \in Requests : CreateJoinRequestFind(r)
  \/ \E r \in Requests : CreateJoinRequestInsert(r)
  \/ \E r \in Requests : CreateJoinRequestNotify(r)

JoinRequestResolveStep ==
  \/ \E u \in Users, j \in RequestIds : AcceptJoinRequest(u, j)
  \/ \E r \in Requests : AcceptJoinRequestPerm(r)
  \/ \E r \in Requests : AcceptJoinRequestStatus(r)
  \/ \E r \in Requests : AcceptJoinRequestCreate(r)
  \/ \E r \in Requests : AcceptJoinRequestNotify(r)
  \/ \E u \in Users, j \in RequestIds : DeclineJoinRequest(u, j)

\* join requests whose creating calls overlap
NextRequest ==
  \/ ProjectStep
  \/ JoinRequestRaceStep
  \/ JoinRequestResolveStep

SpecRequest == Init /\ [][NextRequest]_vars

NotificationFailureStep ==
  \/ \E r \in Requests : CreateJoinRequestNotifyFails(r)
  \/ \E r \in Requests : AcceptJoinRequestNotifyFails(r)
  \/ \E u \in Users, j \in RequestIds : DeclineJoinRequestNotifyFails(u, j)

\* the join-request flow over a notifications table whose inserts may fail
NextNotify ==
  \/ ProjectStep
  \/ JoinRequestRaceStep
  \/ JoinRequestResolveStep
  \/ NotificationFailureStep

SpecNotify == Init /\ [][NextNotify]_vars

\* ------------------------------------------------------ bearer credentials

\* what the caller presents as its bearer token
Credentials == {"valid", "expired", "badSignature"}

\* jwt.verify: "none" when it returns the payload, otherwise the class of
\* the error it throws
jwtVerify(cred) ==
  CASE cred = "expired" -> "TokenExpiredError"
    [] cred = "badSignature" -> "JsonWebTokenError"
    [] OTHER -> "none"

\* error instanceof cls over the classes jwt exports: TokenExpiredError
\* extends JsonWebTokenError
instanceOf(err, cls) ==
  \/ err = cls
  \/ err = "TokenExpiredError" /\ cls = "JsonWebTokenError"

\* the catch block of authenticate: the first test that matches answers
authenticateCatch(err) ==
  IF instanceOf(err, "JsonWebTokenError") THEN "InvalidCredential"
  ELSE IF instanceOf(err, "TokenExpiredError") THEN "ExpiredCredential"
  ELSE "AuthenticationError"

\* authenticate from the token on: verify, then the user and tenant lookup
AuthenticateToken(u, cred) ==
  /\ LET err == jwtVerify(cred)
         kind == IF err # "none" THEN authenticateCatch(err) ELSE authenticate(u)
     IN last' = [Reply("authenticate", u, 0, kind, "none",
                       IF err # "none" THEN {} ELSE {"auth"}, FALSE)
                   EXCEPT !.pre = cred, !.at = now]
  /\ UNCHANGED <<now, tenantStatus, db, inflight>>

\* callers whose token names a user: the users and one deleted since
TokenSubjects == Users \cup {"u0"}

CredentialStep ==
  \/ \E u \in TokenSubjects, cred \in Credentials : AuthenticateToken(u, cred)
  \/ \E t \in Tenants, st \in TenantStatuses : SetTenantStatus(t, st)

\* authentication against the clock and the tenants' status
NextAuth ==
  \/ Tick
  \/ CredentialStep

SpecAuth == Init /\ [][NextAuth]_vars

\* ------------------------------------------------------ discovery response

\* GET /api/join-requests/search/:code: the body sent with the 200, computed
\* on the tables given; the selected project columns, the creator, the userId
\* of every member row, isMember and hasPendingRequest
searchResponse(ps, ms, js, u, c) ==
  LET project == CHOOSE x \in {y \in ps : y.code = c} : TRUE
      rows == {m \in BagToSet(ms) : m.projectId = project.id}
  IN [id |-> project.id, code |-> project.code, status |-> project.status,
      creator |-> project.createdBy,
      members |-> {m.userId : m \in rows},
      isMember |-> \E m \in rows : m.userId = u,
      hasPendingRequest |->
        \E x \in js : x.projectId = project.id /\ x.userId = u /\
                      x.status = "PENDING"]

\* ------------------------------------------------------------ project list

\* the list starting from the member rows of every user
ListProjects_anyUser(u) ==
  /\ authenticate(u) = "ok"
  /\ CanStart
  /\ inflight' = Suspend(
       Request("listProjects", "created", u, 0,
               [id |-> 0,
                memberProjectIds |-> {m.projectId : m \in BagToSet(members)},
                createdProjectIds |-> {},
                ids |-> {}],
               "none"))
  /\ UNCHANGED <<now, tenantStatus, db, last>>

\* GET /api/projects: projectMember.findMany({ userId }), the project ids of
\* the caller's member rows
ListProjects(u) ==
  /\ authenticate(u) = "ok"
  /\ CanStart
  /\ inflight' = Suspend(
       Request("listProjects", "created", u, 0,
               [id |-> 0,
                memberProjectIds |->
                  {m.projectId : m \in {x \in BagToSet(members) : x.userId = u}},
                createdProjectIds |-> {},
                ids |-> {}],
               "none"))
  /\ UNCHANGED <<now, tenantStatus, db, last>>

\* list: project.findMany({ createdBy, tenantId }); no accessible id answers []
ListProjectsCreated(r) ==
  /\ r.op = "listProjects" /\ r.pc = "created"
  /\ LET createdProjectIds ==
           {x.id : x \in {y \in projects : y.createdBy = r.user /\
                                           y.tenantId = UserTenant[r.user]}}
     IN IF r.row.memberProjectIds \cup createdProjectIds = {}
        THEN /\ last' = Finish(r, "OK")
             /\ inflight' = Done(r)
        ELSE /\ inflight' = Resume(r, [r EXCEPT !.pc = "query",
                                 !.row.createdProjectIds = createdProjectIds])
             /\ UNCHANGED last
  /\ UNCHANGED <<now, tenantStatus, db>>

\* list: project.findMany({ id in accessibleProjectIds, OR: [{ tenantId },
\* { id in memberProjectIds, members: some userId }] })
ListProjectsQuery(r) ==
  /\ r.op = "listProjects" /\ r.pc = "query"
  /\ LET accessibleProjectIds == r.row.memberProjectIds \cup r.row.createdProjectIds
         found == {x \in projects :
                     /\ x.id \in accessibleProjectIds
                     /\ \/ x.tenantId = UserTenant[r.user]
                        \/ /\ x.id \in r.row.memberProjectIds
                           /\ MemberRows(members, x.id, r.user) # {}}
     IN inflight' = Resume(r, [r EXCEPT !.pc = "respond",
                                        !.row.ids = {x.id : x \in found}])
  /\ UNCHANGED <<now, tenantStatus, db, last>>

\* list: res.json(projects)
ListProjectsRespond(r) ==
  /\ r.op = "listProjects" /\ r.pc = "respond"
  /\ last' = [Finish(r, "OK") EXCEPT !.rows = Cardinality(r.row.ids)]
  /\ inflight' = Done(r)
  /\ UNCHANGED <<now, tenantStatus, db>>

ListStep ==
  \/ \E u \in Users : ListProjects(u)
  \/ \E r \in Requests : ListProjectsCreated(r)
  \/ \E r \in Requests : ListProjectsQuery(r)
  \/ \E r \in Requests : ListProjectsRespond(r)

\* the project list beside the routes that write projects and member rows
NextList ==
  \/ ProjectStep
  \/ InvitationStep
  \/ ListStep

SpecList == Init /\ [][NextList]_vars

\* --------------------------------------------------- roles of an invitation

\* the schema taking every role of the enum
createInvitationSchema_anyRole(role) == role \in ProjectRole

\* createInvitationSchema.parse on the role of the body: TRUE when it parses
createInvitationSchema(role) == role \in InvitableRoles

\* the roles the clients put in the body here
BodyRoles == {"OWNER", "VIEWER"}

\* POST /api/invitations from the parse of the body on
CreateInvitationParsed(u, p, e, role) ==
  IF createInvitationSchema(role)
  THEN CreateInvitation(u, p, e, role)
  ELSE /\ authenticate(u) = "ok"
       /\ last' = Reply("createInvitation", u, p, errorHandler("ZodError"), "none",
                        {"auth"}, FALSE)
       /\ UNCHANGED <<now, tenantStatus, db, inflight>>

OwnerStep ==
  \/ \E u \in Users, p \in ProjectIds, e \in Emails, role \in BodyRoles :
       CreateInvitationParsed(u, p, e, role)
  \/ \E u \in Users, tok \in Tokens : AcceptInvitation(u, tok)
  \/ \E r \in Requests : AcceptInvitationCheck(r)
  \/ \E r \in Requests : AcceptInvitationMember(r)
  \/ \E r \in Requests : AcceptInvitationDup(r)
  \/ \E r \in Requests : AcceptInvitationCreate(r)
  \/ \E r \in Requests : AcceptInvitationStatus(r)
  \/ \E r \in Requests : AcceptInvitationLog(r)
  \/ \E u \in Users, c \in ProjectIds : CreateJoinRequest(u, c)
  \/ \E u \in Users, j \in RequestIds : AcceptJoinRequest(u, j)
  \/ \E r \in Requests : AcceptJoinRequestPerm(r)
  \/ \E r \in Requests : AcceptJoinRequestStatus(r)
  \/ \E r \in Requests : AcceptJoinRequestCreate(r)
  \/ \E r \in Requests : AcceptJoinRequestNotify(r)

\* every writer of project_members, invitations of any role in the body
NextOwner ==
  \/ ProjectStep
  \/ OwnerStep

SpecOwner == Init /\ [][NextOwner]_vars

\* ----------------------------------------------------------------- claims

\* C2: at most one project_members row exists for every (project, user), also
\* while an invitation acceptance and a join-request acceptance for the same
\* pair interleave their check and insert steps.
C2_MembershipUnique ==
  \A p \in ProjectIds, u \in Users :
    /\ Cardinality(MemberRows(members, p, u)) <= 1
    /\ \A m \in MemberRows(members, p, u) : members[m] = 1

\* C2 witness: a join-request acceptance has passed its isMember check and is
\* about to insert while an invitation acceptance for the same user has
\* already inserted the row.
C2_Witness ==
  \E r \in Requests, q \in Requests :
    /\ r.op = "acceptJoinRequest" /\ r.pc = "create"
    /\ q.op = "acceptInvitation" /\ q.pc \in {"status", "log"}
    /\ q.user = r.row.userId /\ q.row.projectId = r.row.projectId
    /\ MemberRows(members, r.row.projectId, r.row.userId) # {}

\* C10: a project's creator who holds no project_members row for it is resolved
\* as Owner with access, in every state, the window between the two writes of
\* project creation included.
C10_OwnerFallback ==
  \A x \in projects :
    MemberRows(members, x.id, x.createdBy) = {} =>
      checkProjectAccess(x.createdBy, x.id, UserTenant[x.createdBy]) =
        [hasAccess |-> TRUE, role |-> "OWNER", threw |-> FALSE]

\* C10 witness: project creation is suspended between project.create and
\* projectMember.create, the creator has no row yet.
C10_Witness ==
  \E r \in Requests :
    /\ r.op = "createProject" /\ r.pc = "member"
    /\ \E x \in projects : x.id = r.id /\ x.createdBy = r.user
    /\ MemberRows(members, r.id, r.user) = {}

\* C1: a request of a principal on a resource of another tenant ends with
\* TenantMismatch or NotFound. Discover-by-code and lookup-by-token, which the
\* specification opens to every tenant, are left out.
C1_TenantIsolation ==
  (/\ last.op \notin {"none", "searchProject", "getInvitation"}
   /\ last.resTenant \notin {"none", UserTenant[last.user]})
    => last.kind \in {"TenantMismatch", "NotFound"}

\* C3: a second, sequential acceptance of an accepted invitation by the
\* addressed user leaves one membership and answers Conflict.
C3_SecondAcceptConflict ==
  (/\ last.op = "acceptInvitation"
   /\ last.pre = "ACCEPTED"
   /\ ~last.overlap
   /\ \E i \in invitations :
        /\ i.token = last.id
        /\ i.email = UserEmail[last.user]
        /\ i.tenantId = UserTenant[last.user])
    => /\ last.kind = "Conflict"
       /\ \A i \in invitations :
            i.token = last.id =>
              Cardinality(MemberRows(members, i.projectId, last.user)) <= 1

\* C4: of two overlapping acceptances of one token, the one that finds the
\* invitation already consumed answers Conflict and no other error kind.
C4_ConcurrentAcceptConflict ==
  (/\ last.op = "acceptInvitation"
   /\ last.overlap
   /\ last.pre = "ACCEPTED"
   /\ \E i \in invitations :
        /\ i.token = last.id
        /\ UserEmail[last.user] = i.email
        /\ UserTenant[last.user] = i.tenantId)
    => last.kind = "Conflict"

\* C5: an invitation that is accepted, declined or expired keeps its status in
\* every step.
C5_InvitationTerminal ==
  [][\A i \in invitations :
       i.status # "PENDING" =>
         \A j \in invitations' : j.id = i.id => j.status = i.status]_vars

\* C6: a join request that is accepted or declined keeps its status in every
\* step.
C6_JoinRequestTerminal ==
  [][\A i \in joinRequests :
       i.status # "PENDING" =>
         \A j \in joinRequests' : j.id = i.id => j.status = i.status]_vars

\* C7: a lookup-by-token answered after the invitation's expiresAt, the
\* invitation not accepted, answers Gone, never the invitation and never
\* another error.
C7_ExpiredLookupGone ==
  \A i \in invitations :
    (/\ last.op = "getInvitation"
     /\ last.id = i.token
     /\ last.pre \in {"PENDING", "EXPIRED"}
     /\ last.at > i.expiresAt)
      => last.kind = "Gone"

\* C8: a mutating operation that has written ran all four checks first:
\* authentication, tenant guard, checkProjectAccess, permission predicate.
C8_WriteAfterChecks ==
  LET MutatingOps ==
        {"updateProject", "deleteProject", "createTask", "updateTask",
         "deleteTask", "createComment", "deleteComment", "createAttachment",
         "deleteAttachment", "createInvitation", "acceptJoinRequest",
         "declineJoinRequest"}
  IN (last.op \in MutatingOps /\ last.wrote) => Checks \subseteq last.checks

\* C9: a read of a project's tasks, task details, activity, comments or
\* attachments that returns rows was made by a principal with hasAccess.
C9_ReadNeedsAccess ==
  LET RevealingOps ==
        {"getProjectTasks", "getTask", "getActivities", "getTaskComments",
         "getTaskAttachments"}
  IN (last.op \in RevealingOps /\ last.kind = "OK" /\ last.rows > 0)
       => last.access

\* C11: canWrite is true exactly for OWNER, ADMIN and MEMBER, canAdmin exactly
\* for OWNER and ADMIN; both are false for an undefined role and for any other
\* value, over the enum, the undefined role, a foreign value and every role
\* stored in a membership or an invitation.
C11_RolePredicates ==
  LET stored == {m.role : m \in BagToSet(members)} \cup
                {i.role : i \in invitations}
  IN \A role \in ProjectRole \cup {Undefined, "GUEST"} \cup stored :
       /\ canWrite(role) <=> role \in {"OWNER", "ADMIN", "MEMBER"}
       /\ canAdmin(role) <=> role \in {"OWNER", "ADMIN"}

\* C11 witness: PUT /projects/:id has refused a member whose role is VIEWER.
C11_Witness ==
  /\ last.op = "updateProject" /\ last.kind = "Forbidden"
  /\ \E m \in MemberRows(members, last.id, last.user) : m.role = "VIEWER"

\* C12: a step in which DELETE /projects/:id removes a project is taken by a
\* caller whose resolved role is OWNER.
C12_DeleteOwnerOnly ==
  [][(/\ last'.op = "deleteProject" /\ last'.kind = "OK"
      /\ \E x \in projects : x.id = last'.id /\ x \notin projects')
       => checkProjectAccess(last'.user, last'.id,
                             UserTenant[last'.user]).role = "OWNER"]_vars

\* C13: while a tenant is not ACTIVE, a request arriving from one of its users
\* is answered TenantInactive and writes nothing, and no handler is started
\* for it; requests already past authenticate are not arrivals.
C13_InactiveTenantBlocked ==
  [][/\ (/\ inflight' = inflight
         /\ last' # last \/ db' # db
         /\ tenantStatus[UserTenant[last'.user]] # "ACTIVE")
          => (last'.kind = "TenantInactive" /\ db' = db)
     /\ \A r \in BagToSet(inflight') :
          (/\ BagCardinality(inflight') > BagCardinality(inflight)
           /\ CopiesIn(r, inflight') > CopiesIn(r, inflight))
            => tenantStatus[UserTenant[r.user]] = "ACTIVE"]_vars

\* C13 witness: a user who created a project while the tenant was ACTIVE is
\* answered TenantInactive after the tenant was suspended or cancelled.
C13_Witness ==
  /\ last.kind = "TenantInactive"
  /\ tenantStatus[UserTenant[last.user]] # "ACTIVE"
  /\ \E x \in projects : x.createdBy = last.user

\* C14: every join_requests row carries the tenant of its project, which is
\* also the tenant of the requesting user.
C14_JoinRequestSameTenant ==
  \A j \in joinRequests :
    \E x \in projects :
      /\ x.id = j.projectId
      /\ x.tenantId = j.tenantId
      /\ UserTenant[j.userId] = x.tenantId

\* C14 witness: POST /join-requests by a user of another tenant than the
\* project's has been refused and has left no row.
C14_Witness ==
  /\ last.op = "createJoinRequest" /\ last.kind = "Forbidden"
  /\ last.resTenant \notin {"none", UserTenant[last.user]}
  /\ \A j \in joinRequests : j.userId # last.user

\* C15: the step of a join-request acceptance that inserts into
\* project_members inserts one row, for the requester, with role MEMBER.
C15_JoinAcceptRoleMember ==
  [][\A r \in BagToSet(inflight) :
       (/\ r.op = "acceptJoinRequest" /\ r.pc = "create"
        /\ inflight' = Resume(r, [r EXCEPT !.pc = "notify"])
        /\ members' # members)
         => \A m \in BagToSet(members') :
              CopiesIn(m, members') > CopiesIn(m, members) =>
                /\ m.role = "MEMBER"
                /\ m.userId = r.row.userId
                /\ m.projectId = r.row.projectId]_vars

\* C15 witness: an acceptance has inserted the requester's row and is about
\* to notify.
C15_Witness ==
  \E r \in Requests :
    /\ r.op = "acceptJoinRequest" /\ r.pc = "notify"
    /\ \E m \in MemberRows(members, r.row.projectId, r.row.userId) :
         m.role = "MEMBER"

\* C16: when an Owner/Admin accepts a join request whose requester is already
\* a member at the time the request is loaded, the answer is Conflict and the
\* request is ACCEPTED afterwards.
C16_AlreadyMemberConflict ==
  [][\A r \in BagToSet(inflight) :
       (/\ r.op = "acceptJoinRequest" /\ r.pc = "perm" /\ r.snap
        /\ AdminMembership(r.row.projectId, r.user) # {}
        /\ inflight' = Done(r))
         => /\ last'.kind = "Conflict"
            /\ \A j \in joinRequests' : j.id = r.id => j.status = "ACCEPTED"]_vars

\* C17: an acceptance of an unexpired pending invitation by a principal whose
\* email is the invitation's but whose tenant is another ends at its checks
\* with TenantMismatch or Forbidden, writing no membership and leaving the
\* invitation as it is.
C17_AcceptNeedsTenant ==
  [][\A r \in BagToSet(inflight) :
       (/\ r.op = "acceptInvitation" /\ r.pc = "check"
        /\ UserEmail[r.user] = r.row.email
        /\ UserTenant[r.user] # r.row.tenantId
        /\ now <= r.row.expiresAt
        /\ CopiesIn(r, inflight') < CopiesIn(r, inflight))
         => /\ inflight' = Done(r)
            /\ last'.kind \in {"TenantMismatch", "Forbidden"}
            /\ members' = members
            /\ invitations' = invitations]_vars

\* C17 witness: the addressed user of another tenant has been answered
\* TenantMismatch, holds no membership and the invitation is still PENDING.
C17_Witness ==
  /\ last.op = "acceptInvitation" /\ last.kind = "TenantMismatch"
  /\ \E i \in invitations :
       /\ i.token = last.id /\ i.status = "PENDING"
       /\ i.email = UserEmail[last.user]
       /\ i.tenantId # UserTenant[last.user]
       /\ MemberRows(members, i.projectId, last.user) = {}

\* C17 as stated, the invitation's expiry not considered.
C17_AcceptNeedsTenant_AsStated ==
  [][\A r \in BagToSet(inflight) :
       (/\ r.op = "acceptInvitation" /\ r.pc = "check"
        /\ UserEmail[r.user] = r.row.email
        /\ UserTenant[r.user] # r.row.tenantId
        /\ CopiesIn(r, inflight') < CopiesIn(r, inflight))
         => /\ inflight' = Done(r)
            /\ last'.kind \in {"TenantMismatch", "Forbidden"}
            /\ members' = members
            /\ invitations' = invitations]_vars

\* C18: an Owner/Admin inviting an email to a project again, the earlier
\* invitation to it being ACCEPTED and its acceptance having made the
\* addressed user a member at the invitation's role, is answered OK.
C18_ReinviteAfterAccepted ==
  (/\ last.op = "createInvitation"
   /\ Checks \subseteq last.checks
   /\ last.pre = "ACCEPTED"
   /\ \E i \in invitations, x \in Users :
        /\ i.projectId = last.id /\ i.status = "ACCEPTED"
        /\ UserEmail[x] = i.email
        /\ \E m \in MemberRows(members, i.projectId, x) : m.role = i.role)
    => last.kind = "OK"

\* C19: for every (userId, projectId, tenantId), checkProjectAccess returns
\* the role of the membership row for the three when there is one; without a
\* row it denies when there is no such project, throws when the project is of
\* another tenant, and denies a caller of the project's tenant who is not its
\* creator.
C19_ResolveAccessAlgorithm ==
  \A u \in Users, p \in ProjectIds, t \in Tenants :
    LET rows == {m \in BagToSet(members) :
                   m.projectId = p /\ m.userId = u /\ m.tenantId = t}
        a == checkProjectAccess(u, p, t)
    IN /\ rows # {} =>
            /\ a.hasAccess /\ ~a.threw
            /\ \E m \in rows : a.role = m.role
       /\ (rows = {} /\ ProjectById(p) = {}) => (~a.hasAccess /\ ~a.threw)
       /\ \A x \in ProjectById(p) :
            /\ (rows = {} /\ x.tenantId # t) => a.threw
            /\ (rows = {} /\ x.tenantId = t /\ x.createdBy # u) =>
                 (~a.hasAccess /\ ~a.threw)

\* C19 witness: a route has consulted the resolver for a caller of the
\* project's tenant who is neither member nor creator and has refused, while
\* the project has a member row and a user of another tenant exists for whom
\* the resolver throws.
C19_Witness ==
  /\ last.kind = "Forbidden" /\ "access" \in last.checks
  /\ MemberRows(members, last.id, last.user) = {}
  /\ \E x \in ProjectById(last.id) :
       /\ x.tenantId = UserTenant[last.user] /\ x.createdBy # last.user
       /\ MemberRows(members, x.id, x.createdBy) # {}
       /\ \E v \in Users : checkProjectAccess(v, x.id, UserTenant[v]).threw

\* C20: a step in which POST /invitations adds an invitation is taken by a
\* caller to whom checkProjectAccess gives access with a role canAdmin
\* accepts, that is OWNER or ADMIN.
C20_InviteNeedsAdmin ==
  [][(/\ last'.op = "createInvitation"
      /\ \E i \in invitations' :
           /\ i.id \notin {j.id : j \in invitations}
           /\ i.invitedBy = last'.user /\ i.projectId = last'.id)
       => LET a == checkProjectAccess(last'.user, last'.id,
                                      UserTenant[last'.user])
          IN /\ a.hasAccess /\ ~a.threw
             /\ canAdmin(a.role)
             /\ a.role \in {"OWNER", "ADMIN"}]_vars

\* C20 witness: a member whose role is VIEWER has asked to invite and has been
\* refused, the invitations unchanged.
C20_Witness ==
  /\ last.op = "createInvitation" /\ last.kind = "Forbidden" /\ ~last.wrote
  /\ \E m \in MemberRows(members, last.id, last.user) : m.role = "VIEWER"

\* C21: for every (project, email) at most one invitation is PENDING, also
\* when two creating calls for the pair overlap; a creating call whose
\* findFirst returns a pending invitation answers Conflict and writes nothing.
C21_UniquePendingInvitation ==
  /\ \A p \in ProjectIds, e \in Emails :
       Cardinality({x \in invitations : x.projectId = p /\ x.email = e /\
                                        x.status = "PENDING"}) <= 1
  /\ (last.op = "createInvitation" /\ last.pre = "PENDING")
       => (last.kind = "Conflict" /\ ~last.wrote)

\* two overlapping creating calls passed the findFirst; the second insert was
\* refused and one pending invitation exists
C21_Witness ==
  /\ last.op = "createInvitation" /\ last.overlap
  /\ last.pre = "NONE" /\ last.kind = "Conflict" /\ Checks \subseteq last.checks
  /\ Cardinality({x \in invitations : x.projectId = last.id /\
                                       x.status = "PENDING"}) = 1

\* C22: the acceptance of an unexpired invitation of the caller's tenant goes
\* on past the email check when the caller's email equals the invitation's
\* ignoring letter case, and otherwise answers Forbidden and adds no member.
C22_EmailCaseInsensitive ==
  [][\A r \in BagToSet(inflight) :
       (/\ r.op = "acceptInvitation" /\ r.pc = "check"
        /\ now <= r.row.expiresAt
        /\ UserTenant[r.user] = r.row.tenantId
        /\ CopiesIn(r, inflight') < CopiesIn(r, inflight))
         => IF toLowerCase(UserEmail[r.user]) = toLowerCase(r.row.email)
            THEN BagCardinality(inflight') = BagCardinality(inflight)
            ELSE /\ inflight' = Done(r)
                 /\ last'.kind = "Forbidden"
                 /\ members' = members]_vars

\* C23: an invitation is ACCEPTED only while its addressee holds a
\* project_members row of the invitation's project, in every state including
\* those left by a server that stopped inside an acceptance; and a step of an
\* acceptance turns a PENDING invitation into ACCEPTED only when the accepting
\* user's row is already written, so an acceptance interrupted before that step
\* leaves the invitation PENDING.
C23_MemberBeforeAccepted ==
  /\ [](\A i \in invitations :
         i.status = "ACCEPTED"
           => \E u \in Users : /\ UserEmail[u] = i.email
                               /\ MemberRows(members, i.projectId, u) # {})
  /\ [][\A r \in BagToSet(inflight) :
         (/\ r.op = "acceptInvitation"
          /\ CopiesIn(r, inflight') < CopiesIn(r, inflight)
          /\ \E i \in invitations, j \in invitations' :
               i.id = r.row.id /\ j.id = i.id /\
               i.status = "PENDING" /\ j.status = "ACCEPTED")
           => MemberRows(members, r.row.projectId, r.user) # {}]_vars

\* the server stopped between the membership insert and the status update: the
\* addressee is a member at the invitation's role, the invitation is PENDING
C23_Witness ==
  /\ inflight = EmptyBag
  /\ \E i \in invitations, u \in Users :
       /\ i.status = "PENDING" /\ UserEmail[u] = i.email
       /\ \E m \in MemberRows(members, i.projectId, u) : m.role = i.role

\* C24: an acceptance whose caller already holds a project_members row of the
\* invitation's project, the invitation being PENDING, inserts no row and
\* changes none: its findFirst step goes on to the already-member branch, and
\* that branch marks the invitation ACCEPTED and answers Conflict.
C24_AcceptByMember ==
  [][\A r \in BagToSet(inflight) :
       (/\ r.op = "acceptInvitation" /\ r.pc \in {"member", "dup"}
        /\ CopiesIn(r, inflight') < CopiesIn(r, inflight)
        /\ MemberRows(members, r.row.projectId, r.user) # {}
        /\ \E i \in invitations : i.id = r.row.id /\ i.status = "PENDING")
         => /\ members' = members
            /\ IF r.pc = "member"
               THEN /\ inflight' = Resume(r, [r EXCEPT !.pc = "dup"])
                    /\ invitations' = invitations
               ELSE /\ inflight' = Done(r)
                    /\ last'.kind = "Conflict"
                    /\ \A j \in invitations' :
                         j.id = r.row.id => j.status = "ACCEPTED"]_vars

\* an acceptance by a caller who was a member already has answered Conflict:
\* the invitation is ACCEPTED and the caller still holds one row
C24_Witness ==
  /\ last.op = "acceptInvitation" /\ last.kind = "Conflict" /\ last.wrote
  /\ \E i \in invitations :
       /\ i.token = last.id /\ i.status = "ACCEPTED"
       /\ Cardinality(MemberRows(members, i.projectId, last.user)) = 1
       /\ \A m \in MemberRows(members, i.projectId, last.user) :
            CopiesIn(m, members) = 1

\* C25: the expiry check of an acceptance or of a lookup that runs after
\* expiresAt on an invitation still PENDING answers Gone and inserts no
\* project_members row, and no step of an acceptance inserts a
\* project_members row once the invitation's expiresAt has passed.
C25_NoMemberAfterExpiry ==
  [][\A r \in BagToSet(inflight) :
       /\ (/\ r.op \in {"acceptInvitation", "getInvitation"} /\ r.pc = "check"
           /\ CopiesIn(r, inflight') < CopiesIn(r, inflight)
           /\ now > r.row.expiresAt
           /\ \E i \in invitations : i.id = r.row.id /\ i.status = "PENDING")
            => /\ last'.kind = "Gone"
               /\ members' = members
               /\ \A j \in invitations' : j.id = r.row.id => j.status = "EXPIRED"
       /\ (/\ r.op = "acceptInvitation"
           /\ CopiesIn(r, inflight') < CopiesIn(r, inflight)
           /\ members' # members)
            => now <= r.row.expiresAt]_vars

\* C26: a lookup by token sent without a credential, the invitation being
\* PENDING and not past expiresAt, returns the invitation; and every lookup
\* that returns an invitation found it PENDING.
C26_PublicLookup ==
  /\ \A i \in invitations :
       (/\ last.op = "getInvitation" /\ last.user = Anonymous
        /\ last.id = i.token /\ last.pre = "PENDING"
        /\ last.at <= i.expiresAt)
         => (last.kind = "OK" /\ last.rows = 1)
  /\ (last.op = "getInvitation" /\ last.kind = "OK") => last.pre = "PENDING"

\* C27: for every (project, user) at most one join request is PENDING, also
\* when two creating calls of the user overlap; a creating call whose caller
\* is a member of the loaded project answers without success and writes
\* nothing, and so does one whose findFirst returns a pending request.
C27_UniquePendingRequest ==
  /\ [](\A p \in ProjectIds, u \in Users :
         Cardinality(PendingRequests(p, u)) <= 1)
  /\ []((last.op = "createJoinRequest" /\ last.pre = "MEMBER")
          => (last.kind # "OK" /\ ~last.wrote))
  /\ [][\A r \in BagToSet(inflight) :
         (/\ r.op = "createJoinRequest" /\ r.pc = "find"
          /\ CopiesIn(r, inflight') < CopiesIn(r, inflight)
          /\ PendingRequests(r.row.projectId, r.user) # {})
           => /\ inflight' = Done(r)
              /\ last'.kind # "OK"
              /\ joinRequests' = joinRequests
              /\ notifications' = notifications]_vars

\* two overlapping creating calls of one user passed the findFirst; the second
\* insert was refused and one pending request exists
C27_Witness ==
  /\ last.op = "createJoinRequest" /\ last.overlap
  /\ last.pre = "NONE" /\ last.kind = "Conflict"
  /\ \E p \in ProjectIds : Cardinality(PendingRequests(p, last.user)) = 1

\* C28: listing, declining and accepting join requests is allowed exactly when
\* canAdmin holds of the role checkProjectAccess resolves for the caller, the
\* project and the caller's tenant: a list or decline call is answered OK
\* rather than Forbidden exactly then, and the permission step of an
\* acceptance ends with Forbidden exactly when it does not hold.
C28_JoinRequestAdminOnly ==
  [][/\ (/\ last' # last
         /\ last'.op = "listJoinRequests"
         /\ last'.kind \in {"OK", "Forbidden"})
          => (last'.kind = "OK"
                <=> canAdmin(checkProjectAccess(last'.user, last'.id,
                                                UserTenant[last'.user]).role))
     /\ \A j \in joinRequests :
          (/\ last' # last
           /\ last'.op = "declineJoinRequest" /\ last'.id = j.id
           /\ last'.kind \in {"OK", "Forbidden"})
            => (last'.kind = "OK"
                  <=> canAdmin(checkProjectAccess(last'.user, j.projectId,
                                                  UserTenant[last'.user]).role))
     /\ \A r \in BagToSet(inflight) :
          (/\ r.op = "acceptJoinRequest" /\ r.pc = "perm"
           /\ CopiesIn(r, inflight') < CopiesIn(r, inflight))
            => ((inflight' = Done(r) /\ last'.kind = "Forbidden")
                  <=> ~canAdmin(checkProjectAccess(r.user, r.row.projectId,
                                                   UserTenant[r.user]).role))]_vars

\* C29: whether or not its notification insert succeeds, a creating call that
\* has inserted its request answers OK and the request stays; an acceptance
\* that has updated the status and inserted the member answers OK with the
\* request ACCEPTED; a decline that sets DECLINED answers OK.
C29_NotificationNeverFails ==
  [][/\ \A r \in BagToSet(inflight) :
          (/\ r.op \in {"createJoinRequest", "acceptJoinRequest"}
           /\ r.pc = "notify"
           /\ CopiesIn(r, inflight') < CopiesIn(r, inflight))
            => /\ last'.kind = "OK"
               /\ joinRequests' = joinRequests
               /\ members' = members
     /\ \A j \in joinRequests :
          (/\ last' # last /\ last'.op = "declineJoinRequest"
           /\ last'.id = j.id
           /\ \E k \in joinRequests' : k.id = j.id /\ k.status = "DECLINED"
           /\ joinRequests' # joinRequests)
            => last'.kind = "OK"]_vars

C31_CredentialFailureKinds ==
  last.op = "authenticate" =>
    /\ last.pre = "expired" => (last.kind = "ExpiredCredential" /\ last.checks = {})
    /\ last.pre = "badSignature" => (last.kind = "InvalidCredential" /\ last.checks = {})

\* C32: an operation that loads a resource by id evaluates the tenant guard
\* right after the load and before it consults a membership row: an answer
\* computed from membership rows, and a handler that has gone past its
\* membership lookup, has the guard among its checks and concerns a resource
\* of the caller's own tenant.
C32_GuardBeforeMembership ==
  LET LoadsById == {"getProject", "updateProject", "deleteProject",
                    "acceptJoinRequest", "declineJoinRequest", "listJoinRequests"}
      FromMembership == {"OK", "Forbidden", "BadRequest"}
  IN /\ (last.op \in LoadsById /\ last.resTenant # "none" /\
         last.kind \in FromMembership)
          => ("guard" \in last.checks /\ last.resTenant = UserTenant[last.user])
     /\ \A r \in Requests :
          (r.op = "acceptJoinRequest" /\ r.pc # "perm")
            => ("guard" \in r.checks /\ r.resTenant = UserTenant[r.user])

\* C33: a caller cannot tell a resource of another tenant from an id that
\* does not exist: an operation on the id of a resource of another tenant is
\* answered with the kind the same operation gives for a missing id, NotFound.
C33_ForeignLooksMissing ==
  LET ById == {"getProject", "updateProject", "deleteProject",
               "acceptJoinRequest", "declineJoinRequest", "listJoinRequests"}
  IN (last.op \in ById /\ last.resTenant \notin {"none", UserTenant[last.user]})
       => last.kind = "NotFound"

\* C34: the answer of discover-by-code to caller U depends only on the
\* project's public summary, isMember and hasPendingRequest: computed on the
\* tables without the other users' member rows of the project, and with the
\* project moved to the other tenant, it is the answer U was given.
C34_SearchHidesMembers ==
  (last.op = "searchProject" /\ last.kind = "OK") =>
    LET u == last.user
        c == last.id
        p == (CHOOSE x \in ProjectByCode(c) : TRUE).id
        OwnRows(m) == m.projectId # p \/ m.userId = u
        ownOnly == [m \in {y \in DOMAIN members : OwnRows(y)} |-> members[m]]
        moved == {[x EXCEPT !.tenantId = IF x.code = c
                                           THEN CHOOSE t \in Tenants : t # @
                                           ELSE @] : x \in projects}
    IN /\ searchResponse(projects, members, joinRequests, u, c)
            = searchResponse(projects, ownOnly, joinRequests, u, c)
       /\ searchResponse(projects, members, joinRequests, u, c)
            = searchResponse(moved, members, joinRequests, u, c)

\* C35: a create-project that has answered OK left an Owner row of the creator
\* with the project's tenant id; and while the project row is written and the
\* Owner row is not yet, the creator is resolved as Owner and no other user
\* has access to the project.
C35_CreatorOwnerThroughout ==
  /\ (last.op = "createProject" /\ last.kind = "OK" /\ ProjectById(last.id) # {})
       => \E m \in MemberRows(members, last.id, last.user) :
            /\ m.role = "OWNER"
            /\ m.tenantId = (CHOOSE x \in ProjectById(last.id) : TRUE).tenantId
  /\ \A r \in Requests :
       (r.op = "createProject" /\ r.pc = "member" /\ ProjectById(r.id) # {}) =>
         /\ LET a == checkProjectAccess(r.user, r.id, UserTenant[r.user])
            IN a.hasAccess /\ ~a.threw /\ a.role = "OWNER"
         /\ \A u \in Users \ {r.user} : ~HasAccess(u, r.id)

\* C36: every project the final query of list-projects returns to a caller is,
\* at that moment, a project of the caller's tenant that the caller created or
\* holds a project_members row for.
C36_ListScoped ==
  [][\A r \in BagToSet(inflight') :
       (/\ r.op = "listProjects" /\ r.pc = "respond"
        /\ CopiesIn(r, inflight') > CopiesIn(r, inflight))
         => \A p \in r.row.ids :
              \E x \in projects :
                /\ x.id = p
                /\ x.tenantId = UserTenant[r.user]
                /\ x.createdBy = r.user \/ MemberRows(members, p, r.user) # {}]_vars

\* a list about to be sent to a member who is not the creator names the project
C36_Witness ==
  \E r \in Requests :
    /\ r.op = "listProjects" /\ r.pc = "respond"
    /\ \E x \in projects : x.id \in r.row.ids /\ x.createdBy # r.user

\* C37: every project_members row carries the tenant id of its project and
\* belongs to a user of that tenant, whether project creation, invitation
\* acceptance or join-request acceptance wrote it.
C37_MemberRowTenant ==
  \A m \in BagToSet(members) :
    \A x \in ProjectById(m.projectId) :
      m.tenantId = x.tenantId /\ UserTenant[m.userId] = x.tenantId

\* beside the creator's Owner row stands the row of a user let in by an
\* accepted invitation or an accepted join request
C37_Witness ==
  /\ \E m \in BagToSet(members) : m.role = "OWNER"
  /\ \E m \in BagToSet(members) :
       /\ m.role # "OWNER"
       /\ \/ \E j \in joinRequests :
               j.status = "ACCEPTED" /\ j.userId = m.userId /\ j.projectId = m.projectId
          \/ \E i \in invitations :
               /\ i.status = "ACCEPTED" /\ i.email = UserEmail[m.userId]
               /\ i.projectId = m.projectId

\* C38: the requester of every join request with status ACCEPTED holds a
\* project_members row for the request's project, in every state, also while
\* an accept is under way or after it stopped half way.
C38_AcceptedRequestIsMember ==
  \A j \in joinRequests :
    j.status = "ACCEPTED" => MemberRows(members, j.projectId, j.userId) # {}

\* C39: a project has at most one project_members row with role OWNER, and it
\* is the row of the project's creator: invitations propose ADMIN, MEMBER or
\* VIEWER only and join-request acceptance grants MEMBER.
C39_SingleOwner ==
  \A x \in projects :
    LET owners == {m \in BagToSet(members) : m.projectId = x.id /\ m.role = "OWNER"}
    IN /\ Cardinality(owners) <= 1
       /\ \A m \in owners : CopiesIn(m, members) = 1 /\ m.userId = x.createdBy

\* the creator's Owner row beside the row of another member, an invitation
\* proposing OWNER having just been refused
C39_Witness ==
  /\ \E m \in BagToSet(members) : m.role = "OWNER"
  /\ \E m \in BagToSet(members) : m.role # "OWNER"
  /\ last.op = "createInvitation" /\ last.kind = errorHandler("ZodError")
====
